---- MODULE Spec2Model ----
(***************************************************************************)
(* mcp-auto-add: one run of the command-line tool (main), its three target *)
(* adapters (Claude, Gemini, OpenCode), the validators, and the OpenCode   *)
(* config file on disk.  Two runs may be active at once: they are separate *)
(* operating-system processes that share only the file system.             *)
(*                                                                         *)
(* A JavaScript string is a Text: a sequence of chunks (TLA+ strings).     *)
(* Concatenation of strings is \o.  Server names are written one character *)
(* per chunk, so that the validator's regular expression and trim() are    *)
(* computed character by character.                                        *)
(***************************************************************************)
EXTENDS Integers, Sequences, FiniteSets, TLC

(***************************************************************************)
(* Bounds of the model and constants of the program.                       *)
(***************************************************************************)
\* number of arguments of the local server command in the inputs
MaxArgs == 1
\* validateServerName: trimmed.length > 64 is rejected
MaxNameLen == 64

Procs == {1, 2}

(***************************************************************************)
(* JavaScript values (what JSON.parse returns and what the code builds).   *)
(* Every value is a record tagged by t; the payload field is named after   *)
(* the tag so that values of different kinds are never compared.           *)
(***************************************************************************)
Undef == [t |-> "undef"]
Null == [t |-> "null"]
Native == [t |-> "native"]
Bool(b) == [t |-> "bool", b |-> b]
Num(n) == [t |-> "num", n |-> n]
Str(s) == [t |-> "str", s |-> s]
\* an array: its elements a, and the non-index properties x assigned to it
Arr(a) == [t |-> "arr", a |-> a, x |-> <<>>]
\* an object: its own properties in insertion order
Obj(kv) == [t |-> "obj", kv |-> kv]
KV(k, v) == [k |-> k, v |-> v]
\* a literal string
L(s) == <<s>>

\* "__proto__" and "constructor", character by character (legal server names)
ProtoKey == <<"_", "_", "p", "r", "o", "t", "o", "_", "_">>
ConstructorKey == <<"c", "o", "n", "s", "t", "r", "u", "c", "t", "o", "r">>
\* members every object inherits from Object.prototype
InheritedKeys == {ProtoKey, ConstructorKey}

\* JavaScript truthiness: !v is ~Truthy(v)
Truthy(v) ==
    CASE v.t = "undef" -> FALSE
      [] v.t = "null" -> FALSE
      [] v.t = "bool" -> v.b
      [] v.t = "num" -> v.n # 0
      [] v.t = "str" -> v.s # <<>>
      [] OTHER -> TRUE

HasOwn(kv, k) == \E i \in DOMAIN kv : kv[i].k = k
OwnGet(kv, k) == kv[CHOOSE i \in DOMAIN kv : kv[i].k = k].v
OwnSet(kv, k, x) ==
    IF HasOwn(kv, k)
    THEN [i \in DOMAIN kv |-> IF kv[i].k = k THEN KV(k, x) ELSE kv[i]]
    ELSE Append(kv, KV(k, x))

\* reading v[k] throws a TypeError
GetThrows(v) == v.t \in {"undef", "null"}

\* v[k], for v neither null nor undefined
GetProp(v, k) ==
    CASE v.t = "obj" ->
            IF HasOwn(v.kv, k) THEN OwnGet(v.kv, k)
            ELSE IF k \in InheritedKeys THEN Native ELSE Undef
      [] v.t = "arr" ->
            IF HasOwn(v.x, k) THEN OwnGet(v.x, k)
            ELSE IF k \in InheritedKeys THEN Native ELSE Undef
      [] OTHER -> IF k \in InheritedKeys THEN Native ELSE Undef

\* v[k] = x in sloppy mode, for v neither null nor undefined: an assignment
\* to a primitive is dropped; obj.__proto__ = x replaces the prototype and
\* creates no own property
SetProp(v, k, x) ==
    CASE v.t = "obj" ->
            IF ~HasOwn(v.kv, k) /\ k = ProtoKey THEN v
            ELSE Obj(OwnSet(v.kv, k, x))
      [] v.t = "arr" ->
            IF ~HasOwn(v.x, k) /\ k = ProtoKey THEN v
            ELSE [v EXCEPT !.x = OwnSet(v.x, k, x)]
      [] OTHER -> v

\* JSON.parse(JSON.stringify(v, null, 2)): what a written document holds.
\* Properties that are undefined or functions are skipped, the non-index
\* properties of an array are not serialised.
RECURSIVE Persist(_)
Persist(v) ==
    CASE v.t = "obj" ->
            LET keep == SelectSeq(v.kv, LAMBDA e : e.v.t \notin {"undef", "native"})
            IN  Obj([i \in DOMAIN keep |-> KV(keep[i].k, Persist(keep[i].v))])
      [] v.t = "arr" ->
            Arr([i \in DOMAIN v.a |->
                    IF v.a[i].t \in {"undef", "native"} THEN Null ELSE Persist(v.a[i])])
      [] OTHER -> v

(***************************************************************************)
(* Validators.                                                             *)
(***************************************************************************)
Lower == {"a", "b", "c", "d", "e", "f", "g", "h", "i", "j", "k", "l", "m",
          "n", "o", "p", "q", "r", "s", "t", "u", "v", "w", "x", "y", "z"}
Upper == {"A", "B", "C", "D", "E", "F", "G", "H", "I", "J", "K", "L", "M",
          "N", "O", "P", "Q", "R", "S", "T", "U", "V", "W", "X", "Y", "Z"}
Digit == {"0", "1", "2", "3", "4", "5", "6", "7", "8", "9"}
\* the character class [a-zA-Z0-9_-]
SafeChars == Lower \cup Upper \cup Digit \cup {"_", "-"}
WhiteSpace == {" "}

\* String.prototype.trim
Trim(s) ==
    IF \A i \in DOMAIN s : s[i] \in WhiteSpace THEN <<>>
    ELSE LET lo == CHOOSE i \in DOMAIN s :
                     /\ s[i] \notin WhiteSpace
                     /\ \A j \in 1..(i - 1) : s[j] \in WhiteSpace
             hi == CHOOSE i \in DOMAIN s :
                     /\ s[i] \notin WhiteSpace
                     /\ \A j \in (i + 1)..Len(s) : s[j] \in WhiteSpace
         IN  SubSeq(s, lo, hi)

\* /^[a-zA-Z0-9_-]+$/.test(s)
MatchesNameRegex(s) == s # <<>> /\ \A i \in DOMAIN s : s[i] \in SafeChars

\* validateServerName(name): [ok, v]; ok = FALSE stands for the thrown Error
validateServerName(name) ==
    IF ~Truthy(name) \/ name.t # "str" THEN [ok |-> FALSE, v |-> <<>>]
    ELSE LET trimmed == Trim(name.s)
         IN  IF Len(trimmed) = 0 THEN [ok |-> FALSE, v |-> <<>>]
             ELSE IF ~MatchesNameRegex(trimmed) THEN [ok |-> FALSE, v |-> <<>>]
             ELSE IF Len(trimmed) > MaxNameLen THEN [ok |-> FALSE, v |-> <<>>]
             ELSE [ok |-> TRUE, v |-> trimmed]

\* validateTransport(transport, forGemini); transport is a Text, "" is <<>>
validateTransport(transport, forGemini) ==
    LET validTransports == {L("sse"), L("http"), L("stdio")}
    IN  IF transport # <<>> /\ transport \notin validTransports
        THEN [ok |-> FALSE, v |-> <<>>]
        ELSE [ok |-> TRUE,
              v |-> IF transport # <<>> THEN transport
                    ELSE IF forGemini THEN L("http") ELSE L("sse")]

\* validateScope(scope, forGemini); scope is a Text, "" is <<>>
validateScope(scope, forGemini) ==
    LET validScopes == IF forGemini THEN {L("user"), L("project")}
                       ELSE {L("user"), L("local"), L("project")}
    IN  IF scope # <<>> /\ scope \notin validScopes
        THEN [ok |-> FALSE, v |-> <<>>]
        ELSE [ok |-> TRUE, v |-> IF scope # <<>> THEN scope ELSE L("user")]

\* A URL is the Text <<scheme, host, path>>, the scheme with its "://".
\* toLowerCase of the scheme chunk (the i flag of /^https?:\/\//i)
LowerScheme(c) ==
    CASE c = "HTTP://" -> "http://"
      [] c = "HTTPS://" -> "https://"
      [] OTHER -> c
\* hosts the URL parser of the platform rejects (a forbidden host code point)
UnparsableHosts == {"", "a b"}
\* new URL(url) does not throw and its protocol is http: or https:
URLParses(u) ==
    /\ Len(u) >= 2
    /\ LowerScheme(u[1]) \in {"http://", "https://"}
    /\ u[2] \notin UnparsableHosts

\* validateURL(url): url is a JavaScript value
validateURL(url) ==
    IF ~Truthy(url) \/ url.t # "str" THEN [ok |-> FALSE, v |-> <<>>]
    ELSE IF LowerScheme(url.s[1]) \notin {"http://", "https://"}
         THEN [ok |-> FALSE, v |-> <<>>]
    ELSE IF ~URLParses(url.s) THEN [ok |-> FALSE, v |-> <<>>]
    ELSE [ok |-> TRUE, v |-> url.s]

\* shellEscape(arg), arg a Text: single quotes around it, every ' inside
\* replaced by '"'"'
shellEscape(arg) ==
    IF arg = <<>> THEN L("''")
    ELSE L("'") \o [i \in DOMAIN arg |-> IF arg[i] = "'" THEN "'\"'\"'" ELSE arg[i]]
         \o L("'")

\* `${v}` in a template literal
Interp(v) ==
    CASE v.t = "str" -> v.s
      [] v.t = "undef" -> L("undefined")
      [] v.t = "null" -> L("null")
      [] OTHER -> L("[object Object]")

\* the concatenation of the texts of a sequence, sep between them
RECURSIVE Join(_, _)
Join(ts, sep) ==
    IF ts = <<>> THEN <<>>
    ELSE IF Len(ts) = 1 THEN ts[1]
    ELSE ts[1] \o sep \o Join(Tail(ts), sep)

(***************************************************************************)
(* Inputs: server names, parsed configurations, command-line flags.        *)
(***************************************************************************)
NameOK == <<"s", "1">>
NameOther == <<"o", "1">>
\* a name with shell metacharacters
NameInj == <<"a", ";", "r", "m">>
\* a name of 65 characters
NameLong == [i \in 1..(MaxNameLen + 1) |-> "a"]
\* the basename of a working directory with a space in it
NameDir == <<"m", "y", " ", "p">>

Transports == {L("sse"), L("http")}
UrlGood == <<"https://", "gitmcp.io", "/docs">>
UrlInj == <<"https://", "h.io", "/;rm -rf /">>
UrlBadScheme == <<"ftp://", "h.io", "/x">>
UrlBadHost == <<"https://", "a b", "/x">>

EmptyObj == Obj(<<>>)
ArgVals == {L("-y")}
\* the argument lists of at most MaxArgs arguments
ArgSeqs == UNION {[1..n -> ArgVals] : n \in 0..MaxArgs}
JsArgs(args) == Arr([i \in DOMAIN args |-> Str(args[i])])

\* what generateMCPConfigFromJSON returns for a command-based input; a field
\* the object does not have is Undef
LocalConfig(command, args, env, ename) ==
    [isUrlBased |-> FALSE, command |-> command, args |-> JsArgs(args), env |-> env,
     description |-> Str(L("MCP server from JSON")), url |-> Undef,
     transport |-> Undef, name |-> Undef, extractedServerName |-> ename,
     cwd |-> Undef, enabled |-> Bool(TRUE)]
\* what generateMCPConfigFromJSON returns for an input with a url
RemoteConfig(url, transport, ename) ==
    [isUrlBased |-> TRUE, command |-> Undef, args |-> Undef, env |-> Undef,
     description |-> Str(L("URL-based MCP server: ") \o url), url |-> Str(url),
     transport |-> Str(transport), name |-> ename, extractedServerName |-> ename,
     cwd |-> Undef, enabled |-> Undef]
\* what generateMCPConfig returns after a successful auto-detection
AutoConfig ==
    [isUrlBased |-> FALSE, command |-> Str(<<"/usr/bin/", "node">>),
     args |-> JsArgs(<<L("dist/index.js")>>), env |-> EmptyObj,
     description |-> Str(L("Node.js MCP server")), url |-> Undef,
     transport |-> Undef, name |-> Undef, extractedServerName |-> Undef,
     cwd |-> Undef, enabled |-> Undef]

\* Object.keys(v), for v neither null nor undefined
Keys(v) ==
    CASE v.t = "obj" -> [i \in DOMAIN v.kv |-> v.kv[i].k]
      [] v.t = "arr" -> [i \in DOMAIN v.a |-> L(ToString(i - 1))]
      [] OTHER -> <<>>
\* v[k], for k one of Object.keys(v)
KeyGet(v, k) ==
    IF v.t = "arr" THEN v.a[CHOOSE i \in DOMAIN v.a : L(ToString(i - 1)) = k]
    ELSE GetProp(v, k)

\* parseJSONConfig(jsonStr, serverName), from the value JSON.parse gave:
\* ok is FALSE when it throws, v is the object it returns
RECURSIVE parseJSONConfig(_, _, _)
parseJSONConfig(parsed, name, gemini) ==
    IF GetThrows(parsed) THEN [ok |-> FALSE, v |-> Undef]
    ELSE
    LET keys == Keys(parsed)
        get(k) == GetProp(parsed, L(k))
        or(a, b) == IF Truthy(a) THEN a ELSE b
        defaultTransport == IF gemini THEN Str(L("http")) ELSE Str(L("sse"))
    IN  IF /\ Len(keys) = 1 /\ ~Truthy(get("command")) /\ ~Truthy(get("url"))
           /\ KeyGet(parsed, keys[1]).t \in {"obj", "arr", "null"}
        THEN LET inner == parseJSONConfig(Persist(KeyGet(parsed, keys[1])),
                                          Str(keys[1]), gemini)
             IN  IF inner.ok
                 THEN [ok |-> TRUE,
                       v |-> SetProp(inner.v, L("extractedServerName"), Str(keys[1]))]
                 ELSE inner
        ELSE IF Truthy(get("url"))
        THEN [ok |-> TRUE,
              v |-> Obj(<<KV(L("url"), get("url")),
                          KV(L("description"),
                             or(get("description"),
                                Str(L("URL-based MCP server: ") \o Interp(get("url"))))),
                          KV(L("name"), or(get("name"), name)),
                          KV(L("isUrlBased"), Bool(TRUE)),
                          KV(L("transport"), or(get("transport"), defaultTransport))>>
                        \o (IF Truthy(name)
                            THEN <<KV(L("extractedServerName"), name)>> ELSE <<>>))]
        ELSE [ok |-> TRUE,
              v |-> Obj(SelectSeq(
                        <<KV(L("command"), get("command")),
                          KV(L("args"), or(get("args"), Arr(<<>>))),
                          KV(L("env"), or(get("env"), EmptyObj)),
                          KV(L("description"),
                             or(or(get("description"), get("name")),
                                Str(L("MCP server from JSON")))),
                          KV(L("cwd"), get("cwd")),
                          KV(L("enabled"), Bool(get("enabled") # Bool(FALSE)))>>,
                        LAMBDA e : e.v # Undef))]

\* generateMCPConfigFromJSON(jsonStr), from the value JSON.parse gave; a
\* field the returned object does not have is Undef
generateMCPConfigFromJSON(parsed, gemini) ==
    LET r == parseJSONConfig(parsed, Null, gemini)
        get(k) == GetProp(r.v, L(k))
    IN  IF ~r.ok THEN r
        ELSE IF Truthy(get("url"))
        THEN [ok |-> TRUE,
              v |-> [isUrlBased |-> TRUE, command |-> Undef, args |-> Undef,
                     env |-> Undef, description |-> get("description"),
                     url |-> get("url"), transport |-> get("transport"),
                     name |-> get("name"),
                     extractedServerName |-> get("extractedServerName"),
                     cwd |-> Undef, enabled |-> Undef]]
        ELSE [ok |-> TRUE,
              v |-> [isUrlBased |-> FALSE, command |-> get("command"),
                     args |-> get("args"), env |-> get("env"),
                     description |-> get("description"), url |-> Undef,
                     transport |-> Undef, name |-> Undef,
                     extractedServerName |-> get("extractedServerName"),
                     cwd |-> get("cwd"), enabled |-> get("enabled")]]

\* the JSON documents of the inputs. A field whose value is Undef is not in
\* the document; under a key the document is wrapped as {"key": document}.
JsonDoc(fields, key) ==
    LET doc == Obj(SelectSeq(fields, LAMBDA e : e.v # Undef))
    IN  IF key = Undef THEN doc ELSE Obj(<<KV(key.s, doc)>>)
\* the key of a wrapped input, or none
ENames == {Undef, Str(NameOK), Str(NameInj), Str(ProtoKey)}
LocalInputs ==
    {JsonDoc(<<KV(L("command"), Str(L("npx"))), KV(L("args"), JsArgs(a))>>, Undef) :
        a \in ArgSeqs}
    \cup {JsonDoc(<<KV(L("command"), Str(L("npx"))), KV(L("args"), JsArgs(<<L("-y")>>))>>, e) :
            e \in ENames \ {Undef}}
    \cup {JsonDoc(<<KV(L("command"), Str(L("mytool"))),
                    KV(L("env"), Obj(<<KV(L("K"), Str(L("v")))>>)),
                    KV(L("cwd"), Str(L("/srv"))), KV(L("enabled"), Bool(FALSE))>>,
                  Undef)}
\* url, transport and wrapper key of the URL-based inputs
RemoteSpecs ==
    {<<UrlGood, Str(L("sse")), Str(NameOK)>>, <<UrlGood, Str(L("http")), Undef>>,
     <<UrlGood, Str(L("bogus")), Str(NameOK)>>, <<UrlInj, Str(L("sse")), Str(NameInj)>>,
     <<UrlBadScheme, Str(L("sse")), Str(NameOK)>>,
     <<UrlBadHost, Str(L("http")), Str(NameOK)>>,
     <<UrlGood, Str(L("sse")), Str(ProtoKey)>>, <<UrlGood, Undef, Str(NameOK)>>}
RemoteInputs ==
    {JsonDoc(<<KV(L("url"), Str(r[1])), KV(L("transport"), r[2])>>, r[3]) :
        r \in RemoteSpecs}
\* a text JSON.parse throws on: fragment is whether its trimmed form matches
\* one of the two key-colon-brace patterns, wrapped is what JSON.parse gives
\* for the text between braces (Undef when that throws too)
BadText(fragment, wrapped) ==
    [t |-> "text", fragment |-> fragment, wrapped |-> wrapped]
\* `"k": {...` cut short, `"mytool": {"command": "npx"}`, `"command": "npx"`
\* and `not json`
TextInputs ==
    {BadText(TRUE, Undef),
     BadText(TRUE, JsonDoc(<<KV(L("command"), Str(L("npx")))>>, Str(NameOK))),
     BadText(FALSE, JsonDoc(<<KV(L("command"), Str(L("npx")))>>, Undef)),
     BadText(FALSE, Undef)}
\* one JSON.parse call: on the text itself or on the text between braces
Attempt(on, threw) == [on |-> on, threw |-> threw]
\* error.message of the JSON.parse call on
SyntaxError(on) == <<"SyntaxError(" \o on \o ")">>
\* a first block that wraps any text JSON.parse throws on
parseJSONText_AnyText(j) ==
    IF j.t # "text"
    THEN [ok |-> TRUE, v |-> j, calls |-> <<Attempt("direct", FALSE)>>,
          logged |-> <<>>, message |-> <<>>]
    ELSE [ok |-> j.wrapped # Undef, v |-> j.wrapped,
          calls |-> <<Attempt("direct", TRUE), Attempt("wrapped", j.wrapped = Undef)>>,
          logged |-> <<>>,
          message |-> L("Invalid JSON configuration: ") \o SyntaxError("direct")
                      \o L(". Also tried wrapping as fragment: ")
                      \o SyntaxError("wrapped")]
\* the first block of parseJSONConfig(jsonStr): the JSON.parse calls made,
\* the lines logged, and the value parsed or the message of the Error thrown
parseJSONText(j) ==
    IF j.t # "text"
    THEN [ok |-> TRUE, v |-> j, calls |-> <<Attempt("direct", FALSE)>>,
          logged |-> <<>>, message |-> <<>>]
    ELSE IF j.fragment
    THEN IF j.wrapped # Undef
         THEN [ok |-> TRUE, v |-> j.wrapped,
               calls |-> <<Attempt("direct", TRUE), Attempt("wrapped", FALSE)>>,
               logged |-> <<L("Detected JSON fragment, attempting to wrap in braces..."),
                            L("Successfully parsed JSON fragment")>>,
               message |-> <<>>]
         ELSE [ok |-> FALSE, v |-> Undef,
               calls |-> <<Attempt("direct", TRUE), Attempt("wrapped", TRUE)>>,
               logged |-> <<L("Detected JSON fragment, attempting to wrap in braces...")>>,
               message |-> L("Invalid JSON configuration: ") \o SyntaxError("direct")
                           \o L(". Also tried wrapping as fragment: ")
                           \o SyntaxError("wrapped")]
    ELSE [ok |-> FALSE, v |-> Undef, calls |-> <<Attempt("direct", TRUE)>>,
          logged |-> <<>>,
          message |-> L("Invalid JSON configuration: ") \o SyntaxError("direct")]

\* the documents a JSON input (flag, file, clipboard, paste) holds
JsonInputs == LocalInputs \cup RemoteInputs \cup TextInputs
\* the configurations they give
JsonConfigs ==
    {generateMCPConfigFromJSON(parseJSONText(j).v, g).v :
        j \in {i \in JsonInputs : parseJSONText(i).ok}, g \in BOOLEAN}

NoConfig == LocalConfig(Undef, <<>>, Undef, Undef)

\* the input-source arguments of a command line
InputArgs ==
    {i \in [useClipboard : BOOLEAN, jsonInput : BOOLEAN, jsonFileInput : BOOLEAN,
            autoDetectMode : BOOLEAN] :
        /\ i.useClipboard => i.jsonInput
        /\ i.jsonInput => i.jsonFileInput
        /\ i.jsonFileInput => i.autoDetectMode}
ModeArgs ==
    {[isForce |-> f, isDryRun |-> d, generateCommand |-> g,
      useGemini |-> ug, useOpenCode |-> uo] :
        f \in BOOLEAN, d \in BOOLEAN, g \in BOOLEAN, ug \in BOOLEAN, uo \in BOOLEAN}

(***************************************************************************)
(* The OpenCode config file.                                               *)
(***************************************************************************)
\* the config paths findOpenCodeMCPConfigPath can return
Paths == {"user", "project"}
Absent == [t |-> "absent"]
\* a file that is not valid JSON
Garbage == [t |-> "text", raw |-> "{ \"mcp\": "]
\* a file holding the JSON document v
Json(v) == [t |-> "json", v |-> v]

K_schema == L("$schema")
K_mcp == L("mcp")
SchemaURL == L("https://opencode.ai/config.json")
EntryOld ==
    Obj(<<KV(L("enabled"), Bool(TRUE)), KV(L("type"), Str(L("local"))),
          KV(L("command"), Arr(<<Str(L("old"))>>))>>)

\* the contents the config file can have before a run
PriorFiles ==
    {Absent, Garbage,
     Json(EmptyObj),
     Json(Obj(<<KV(K_schema, Str(L("custom"))), KV(L("theme"), Str(L("dark"))),
                KV(K_mcp, Obj(<<KV(NameOther, EntryOld)>>))>>)),
     Json(Obj(<<KV(K_mcp, Obj(<<KV(NameOK, EntryOld)>>))>>)),
     Json(Obj(<<KV(K_mcp, Obj(<<KV(NameOK, Null)>>))>>)),
     Json(Arr(<<>>)),
     Json(Obj(<<KV(K_mcp, Str(L("x")))>>)),
     Json(Obj(<<KV(K_mcp, Arr(<<>>))>>)),
     Json(Null),
     Json(Num(7)),
     Json(Obj(<<KV(K_schema, Str(<<>>)), KV(L("theme"), Str(L("dark")))>>))}

(***************************************************************************)
(* State.                                                                  *)
(***************************************************************************)
VARIABLES
    flags,          \* per run: the command-line flags (constant during the run)
    jsonIn,         \* per run: what JSON.parse gives for the text of the JSON
                    \* input source (argument, file, clipboard or paste), or
                    \* a BadText when it throws
    parses,         \* per run: the JSON.parse calls parseJSONConfig has made on
                    \* the text of the input, in order
    projectName,    \* per run: path.basename(process.cwd())
    pc,             \* per run: where the run is
    config,         \* per run: main's config
    jsonMode,       \* per run: main's jsonMode
    serverName,     \* per run: the serverName argument of the adapter call
    scope,          \* per run: the scope argument of the adapter call
    existingConfig, \* per run: executeOpenCodeMCPAdd's existingConfig
    reads,          \* per run: the input sources read so far
    prompts,        \* per run: the inquirer prompts issued so far, and the
                    \* answers to the overwrite prompt
    procs,          \* per run: the child processes launched so far
    shown,          \* per run: the artifacts rendered (dry-run, generate), the
                    \* cancellation report and what is logged about parsing
    result,         \* per run: what the adapter returned: "none", "true", "false", "threw"
    exitCode,       \* per run: the exit code, -1 while the run is going
    fsFile,         \* the config file at each path
    fsDir,          \* whether ~/.config/opencode exists
    fsLog           \* the file-system calls on the config path so far, in order

runVars == <<flags, jsonIn, parses, projectName, pc, config, jsonMode, serverName, scope,
             existingConfig, reads, prompts, procs, shown, result, exitCode>>
fsVars == <<fsFile, fsDir, fsLog>>
vars == <<runVars, fsVars>>

\* a tool that ignores --dry-run
isDryRun_Off(p) == FALSE
\* const isDryRun = args.includes('--dry-run') || args.includes('-d')
isDryRun(p) == flags[p].isDryRun

Target(p) ==
    IF flags[p].useOpenCode THEN "OpenCode"
    ELSE IF flags[p].useGemini THEN "Gemini" ELSE "Claude"

AllFlags ==
    {[isForce |-> m.isForce, isDryRun |-> m.isDryRun,
      generateCommand |-> m.generateCommand, useGemini |-> m.useGemini,
      useOpenCode |-> m.useOpenCode, useClipboard |-> i.useClipboard,
      jsonInput |-> i.jsonInput, jsonFileInput |-> i.jsonFileInput,
      autoDetectMode |-> i.autoDetectMode] : m \in ModeArgs, i \in InputArgs}
IdleFlags == CHOOSE f \in AllFlags : \A k \in DOMAIN f : ~f[k]

\* an if-chain that tests the sources in the opposite order
Source_Reversed(f) ==
    IF f.autoDetectMode THEN "auto"
    ELSE IF f.jsonFileInput THEN "file"
    ELSE IF f.jsonInput THEN "json"
    ELSE IF f.useClipboard THEN "clipboard"
    ELSE IF ~f.isForce /\ ~f.isDryRun THEN "menu"
    ELSE "auto"
\* the branch main's if-chain takes
Source(f) ==
    IF f.useClipboard THEN "clipboard"
    ELSE IF f.jsonInput THEN "json"
    ELSE IF f.jsonFileInput THEN "file"
    ELSE IF f.autoDetectMode THEN "auto"
    ELSE IF ~f.isForce /\ ~f.isDryRun THEN "menu"
    ELSE "auto"

\* the state of the runs before any of them has started; run 2 is off
InitRuns(started) ==
    /\ pc = [p \in Procs |-> IF p \in started THEN "start" ELSE "off"]
    /\ config = [p \in Procs |-> NoConfig]
    /\ jsonMode = [p \in Procs |-> FALSE]
    /\ serverName = [p \in Procs |-> <<>>]
    /\ scope = [p \in Procs |-> <<>>]
    /\ existingConfig = [p \in Procs |-> Undef]
    /\ reads = [p \in Procs |-> <<>>]
    /\ prompts = [p \in Procs |-> <<>>]
    /\ procs = [p \in Procs |-> <<>>]
    /\ shown = [p \in Procs |-> <<>>]
    /\ parses = [p \in Procs |-> <<>>]
    /\ result = [p \in Procs |-> "none"]
    /\ exitCode = [p \in Procs |-> -1]
    /\ fsLog = <<>>

\* one run of the tool, with any flags, over any prior config file; the JSON
\* input is only there for a run that can read one, and the name of the
\* working directory is only read after an auto-detection
Init ==
    /\ InitRuns({1})
    /\ \E f \in AllFlags : flags = [p \in Procs |-> IF p = 1 THEN f ELSE IdleFlags]
    /\ \E j \in JsonInputs :
          jsonIn = [p \in Procs |-> IF p = 1 /\ Source(flags[1]) # "auto" THEN j ELSE Undef]
    /\ \E n \in {NameOK, NameDir} :
          /\ n = NameDir => Source(flags[1]) \in {"auto", "menu"}
          /\ projectName = [p \in Procs |-> n]
    /\ \E d \in PriorFiles :
          /\ d # Absent => flags[1].useOpenCode
          /\ fsFile = [path \in Paths |-> d]
          /\ fsDir \in (IF d = Absent /\ flags[1].useOpenCode THEN BOOLEAN ELSE {TRUE})

\* process.exit(code), or main returning
Exit(p, code, res) ==
    /\ pc' = [pc EXCEPT ![p] = "done"]
    /\ exitCode' = [exitCode EXCEPT ![p] = code]
    /\ result' = [result EXCEPT ![p] = res]

(***************************************************************************)
(* main: choosing the input source and reading the configuration.          *)
(***************************************************************************)
Log(log, p, entries) == [log EXCEPT ![p] = log[p] \o entries]
ShownText(text) == [text |-> text, js |-> Undef]
ShownJson(v) == [text |-> <<>>, js |-> v]

\* generateMCPConfigFromJSON returned c
GotConfig(p, c, jm) ==
    /\ config' = [config EXCEPT ![p] = c]
    /\ jsonMode' = [jsonMode EXCEPT ![p] = jm]
    /\ pc' = [pc EXCEPT ![p] = "config"]
    /\ UNCHANGED <<result, exitCode>>

\* the JSON text of source src is read and parsed: a configuration, or an
\* error (nothing to read, JSON.parse or parseJSONConfig throws) that is
\* logged by the catch around the clipboard read or by main's, and
\* process.exit(1); the paste prompt only accepts a text JSON.parse takes
ReadFrom(p, src, asked) ==
    /\ src = "paste" => jsonIn[p].t # "text"
    /\ reads' = Log(reads, p, <<src>>)
    /\ prompts' = Log(prompts, p, asked)
    /\ LET t == parseJSONText(jsonIn[p])
           r == generateMCPConfigFromJSON(t.v, flags[p].useGemini)
           said == [i \in DOMAIN t.logged |-> ShownText(t.logged[i])]
           caught == IF src = "clipboard"
                     THEN L("Failed to read from clipboard: ") ELSE L("Error: ")
       IN  \/ /\ t.ok /\ r.ok /\ GotConfig(p, r.v, TRUE)
              /\ parses' = Log(parses, p, t.calls)
              /\ shown' = Log(shown, p, said)
           \/ /\ ~t.ok
              /\ Exit(p, 1, "none")
              /\ parses' = Log(parses, p, t.calls)
              /\ shown' = Log(shown, p, said \o <<ShownText(caught \o t.message)>>)
              /\ UNCHANGED <<config, jsonMode>>
           \/ /\ Exit(p, 1, "none")
              /\ UNCHANGED <<config, jsonMode, parses, shown>>
    /\ UNCHANGED <<flags, jsonIn, projectName, serverName, scope, existingConfig, procs,
                   fsVars>>

\* --clipboard, --json, --json-file
ReadJson(p) ==
    /\ pc[p] = "start"
    /\ Source(flags[p]) \in {"clipboard", "json", "file"}
    /\ ReadFrom(p, Source(flags[p]), <<>>)

\* `.`, or no source with --force or --dry-run: generateMCPConfig
AutoDetect(p) ==
    /\ pc[p] = "start"
    /\ Source(flags[p]) = "auto"
    /\ reads' = Log(reads, p, <<"auto">>)
    /\ \/ GotConfig(p, AutoConfig, FALSE)
       \/ /\ Exit(p, 1, "none")
          /\ UNCHANGED <<config, jsonMode>>
    /\ UNCHANGED <<flags, jsonIn, parses, projectName, serverName, scope, existingConfig, prompts,
                   procs, shown, fsVars>>

\* no source, neither --force nor --dry-run: the input-mode menu is asked
Menu(p) ==
    /\ pc[p] = "start"
    /\ Source(flags[p]) = "menu"
    /\ prompts' = Log(prompts, p, <<"inputMode">>)
    /\ pc' = [pc EXCEPT ![p] = "menu"]
    /\ UNCHANGED <<flags, jsonIn, parses, projectName, config, jsonMode, serverName, scope,
                   existingConfig, reads, procs, shown, result, exitCode, fsVars>>

\* the sources the menus offer besides auto-detect, with their own prompts
MenuSources ==
    {<<"paste", <<"inputMethod", "jsonConfig">>>>, <<"file", <<"filePath">>>>,
     <<"clipboard", <<>>>>}

\* the answer to the input-mode menu: json, file or clipboard
MenuJson(p) ==
    /\ pc[p] = "menu"
    /\ \E m \in MenuSources : ReadFrom(p, m[1], m[2])

\* the answer to the input-mode menu: auto-detect; when it fails the
\* fallback menu is asked
MenuAuto(p) ==
    /\ pc[p] = "menu"
    /\ reads' = Log(reads, p, <<"auto">>)
    /\ \/ /\ GotConfig(p, AutoConfig, FALSE)
          /\ UNCHANGED prompts
       \/ /\ prompts' = Log(prompts, p, <<"fallbackMode">>)
          /\ pc' = [pc EXCEPT ![p] = "fallback"]
          /\ UNCHANGED <<config, jsonMode, result, exitCode>>
    /\ UNCHANGED <<flags, jsonIn, parses, projectName, serverName, scope, existingConfig, procs,
                   shown, fsVars>>

\* the answer to the fallback menu: json, file or clipboard
FallbackJson(p) ==
    /\ pc[p] = "fallback"
    /\ \E m \in MenuSources : ReadFrom(p, m[1], m[2])

\* the answer to the fallback menu: exit
FallbackExit(p) ==
    /\ pc[p] = "fallback"
    /\ Exit(p, 0, "none")
    /\ UNCHANGED <<flags, jsonIn, parses, projectName, config, jsonMode, serverName, scope,
                   existingConfig, reads, prompts, procs, shown, fsVars>>

(***************************************************************************)
(* Child processes and rendered artifacts.                                 *)
(***************************************************************************)
\* execSync(cmd): cmd is one string handed to a shell
ShellLaunch(role, cmd, status, out) ==
    [role |-> role, api |-> "execSync", shell |-> TRUE, cmd |-> cmd,
     argv |-> <<>>, status |-> status, out |-> out]
\* spawnSync(file, argv): no shell, argv an array of strings
SpawnLaunch(role, file, argv, status) ==
    [role |-> role, api |-> "spawnSync", shell |-> FALSE, cmd |-> file,
     argv |-> argv, status |-> status, out |-> "ok"]

\* JSON.stringify(v), compact, as a Text; v is not undefined
RECURSIVE Stringify(_)
Stringify(v) ==
    CASE v.t = "str" -> L("\"") \o v.s \o L("\"")
      [] v.t = "num" -> L(ToString(v.n))
      [] v.t = "bool" -> IF v.b THEN L("true") ELSE L("false")
      [] v.t = "null" -> L("null")
      [] v.t = "arr" ->
            L("[") \o Join([i \in DOMAIN v.a |->
                              IF v.a[i].t \in {"undef", "native"} THEN L("null")
                              ELSE Stringify(v.a[i])], L(","))
            \o L("]")
      [] v.t = "obj" ->
            LET keep == SelectSeq(v.kv, LAMBDA e : e.v.t \notin {"undef", "native"})
            IN  L("{") \o Join([i \in DOMAIN keep |->
                                  L("\"") \o keep[i].k \o L("\":")
                                  \o Stringify(keep[i].v)], L(","))
                \o L("}")
      [] OTHER -> L("null")

(***************************************************************************)
(* main: generate-command mode, --force, and the interactive questions.    *)
(***************************************************************************)
\* 'mcp-server'
MCPServerName == <<"m", "c", "p", "-", "s", "e", "r", "v", "e", "r">>
\* a || b
Or(a, b) == IF Truthy(a) THEN a ELSE b
\* config.extractedServerName || config.name ||
\*   (jsonMode ? 'mcp-server' : projectName) || 'mcp-server'
defaultServerName(p) ==
    Or(Or(Or(config[p].extractedServerName, config[p].name),
          IF jsonMode[p] THEN Str(MCPServerName) ELSE Str(projectName[p])),
       Str(MCPServerName)).s

\* a dispatch that sends an OpenCode run to the Gemini adapter
AdapterPc_NoOpenCode(p) ==
    IF config[p].isUrlBased THEN "geminiURL" ELSE "gemini"
\* the adapter function main calls for the active target
AdapterPc(p) ==
    IF flags[p].useOpenCode THEN "opencode"
    ELSE IF flags[p].useGemini
         THEN (IF config[p].isUrlBased THEN "geminiURL" ELSE "gemini")
         ELSE (IF config[p].isUrlBased THEN "claudeURL" ELSE "claude")

\* executeFn(config, name, sc) is about to be called
CallAdapter(p, name, sc) ==
    /\ serverName' = [serverName EXCEPT ![p] = name]
    /\ scope' = [scope EXCEPT ![p] = sc]
    /\ pc' = [pc EXCEPT ![p] = AdapterPc(p)]
    /\ UNCHANGED <<result, exitCode>>

\* a conversion that gives every entry an environment
convertToOpenCodeFormat_Env(c) ==
    Obj(<<KV(L("enabled"), Bool(TRUE)),
          KV(L("type"), Str(IF Truthy(c.url) THEN L("remote") ELSE L("local"))),
          KV(L("environment"), EmptyObj)>>)
\* convertToOpenCodeFormat(config, serverName)
convertToOpenCodeFormat(c) ==
    LET base == <<KV(L("enabled"), Bool(TRUE))>>
        body == IF Truthy(c.url)
                THEN base \o <<KV(L("type"), Str(L("remote"))), KV(L("url"), c.url)>>
                ELSE base \o <<KV(L("type"), Str(L("local"))),
                               KV(L("command"),
                                  Arr(<<c.command>>
                                      \o (IF Truthy(c.args) /\ Len(c.args.a) > 0
                                          THEN c.args.a ELSE <<>>)))>>
    IN  Obj(IF Truthy(c.env) /\ Len(c.env.kv) > 0
            THEN body \o <<KV(L("environment"), c.env)>>
            ELSE body)

\* a command whose payload is the whole configuration
generateClaudeCommand_Whole(c, name, sc) ==
    L("claude mcp add-json ") \o name \o L(" '")
    \o Stringify(Obj(<<KV(L("command"), c.command), KV(L("args"), c.args),
                       KV(L("env"), c.env), KV(L("description"), c.description),
                       KV(L("cwd"), c.cwd), KV(L("enabled"), c.enabled),
                       KV(L("extractedServerName"), c.extractedServerName)>>))
    \o L("' -s ") \o sc
\* generateClaudeCommand(config, serverName, scope)
generateClaudeCommand(c, name, sc) ==
    LET cleanConfig == Obj(<<KV(L("command"), c.command), KV(L("args"), c.args),
                             KV(L("env"), c.env), KV(L("description"), c.description)>>)
    IN  L("claude mcp add-json ") \o name \o L(" '") \o Stringify(cleanConfig)
        \o L("' -s ") \o sc

\* generateGeminiMCPCommand(config, serverName, scope): [ok, v]
generateGeminiMCPCommand(c, name, sc) ==
    LET vn == validateServerName(Str(name))
        vs == validateScope(sc, FALSE)
    IN  IF ~vn.ok \/ ~vs.ok THEN [ok |-> FALSE, v |-> <<>>]
        ELSE [ok |-> TRUE,
              v |-> L("gemini mcp add")
                    \o (IF vs.v # L("user") THEN L(" --scope ") \o vs.v ELSE <<>>)
                    \o L(" ") \o shellEscape(vn.v)
                    \o L(" ") \o (IF c.command.t = "str" THEN shellEscape(c.command.s)
                                   ELSE L("''"))
                    \o (IF Truthy(c.args) /\ Len(c.args.a) > 0
                        THEN L(" ") \o Join([i \in DOMAIN c.args.a |->
                                               shellEscape(c.args.a[i].s)], L(" "))
                        ELSE <<>>)]

\* what generate-command mode renders for a URL-based configuration
GenerateURL(p) ==
    LET name == defaultServerName(p)
        transport == Or(config[p].transport,
                        IF flags[p].useGemini \/ flags[p].useOpenCode
                        THEN Str(L("http")) ELSE Str(L("sse"))).s
    IN  IF flags[p].useOpenCode
        THEN ShownJson(Obj(<<KV(name, Obj(<<KV(L("type"), Str(L("remote"))),
                                           KV(L("url"), config[p].url),
                                           KV(L("enabled"), Bool(TRUE))>>))>>))
        ELSE ShownText((IF flags[p].useGemini THEN L("gemini") ELSE L("claude"))
                       \o L(" mcp add --transport ") \o transport \o L(" ") \o name
                       \o L(" ") \o Interp(config[p].url))

\* --generate-command: the artifact is rendered, copied to the clipboard,
\* and the run exits; generateGeminiMCPCommand throws on an invalid name
Generate(p) ==
    /\ pc[p] = "config"
    /\ flags[p].generateCommand
    /\ LET name == defaultServerName(p)
           gem == generateGeminiMCPCommand(config[p], name, L("user"))
       IN  IF config[p].isUrlBased
           THEN /\ shown' = Log(shown, p, <<GenerateURL(p)>>)
                /\ Exit(p, 0, "none")
           ELSE IF flags[p].useOpenCode
           THEN /\ shown' = Log(shown, p,
                        <<ShownJson(Obj(<<KV(name, convertToOpenCodeFormat(config[p]))>>))>>)
                /\ Exit(p, 0, "none")
           ELSE IF flags[p].useGemini
           THEN IF gem.ok
                THEN /\ shown' = Log(shown, p, <<ShownText(gem.v)>>)
                     /\ Exit(p, 0, "none")
                ELSE /\ Exit(p, 1, "none")
                     /\ UNCHANGED shown
           ELSE /\ shown' = Log(shown, p,
                        <<ShownText(generateClaudeCommand(config[p], name, L("user")))>>)
                /\ Exit(p, 0, "none")
    /\ UNCHANGED <<flags, jsonIn, parses, projectName, config, jsonMode, serverName, scope,
                   existingConfig, reads, prompts, procs, fsVars>>

\* a --force that is looked at before --generate-command
ForceAdd_Always(p) ==
    /\ pc[p] = "config"
    /\ flags[p].isForce
    /\ CallAdapter(p, defaultServerName(p), L("user"))
    /\ UNCHANGED <<flags, jsonIn, parses, projectName, config, jsonMode, existingConfig, reads,
                   prompts, procs, shown, fsVars>>
\* --force: no question, the default name and scope 'user'
ForceAdd(p) ==
    /\ pc[p] = "config"
    /\ ~flags[p].generateCommand
    /\ flags[p].isForce
    /\ CallAdapter(p, defaultServerName(p), L("user"))
    /\ UNCHANGED <<flags, jsonIn, parses, projectName, config, jsonMode, existingConfig, reads,
                   prompts, procs, shown, fsVars>>

\* a URL-based configuration without --force: scope, name, transport and
\* confirmation are asked
AskURL(p) ==
    /\ pc[p] = "config"
    /\ ~flags[p].generateCommand
    /\ ~flags[p].isForce
    /\ config[p].isUrlBased
    /\ prompts' = Log(prompts, p, <<"scope", "serverName", "transport", "confirm">>)
    /\ pc' = [pc EXCEPT ![p] = "urlAsk"]
    /\ UNCHANGED <<flags, jsonIn, parses, projectName, config, jsonMode, serverName, scope,
                   existingConfig, reads, procs, shown, result, exitCode, fsVars>>

StdCommands == {"npx", "npm", "yarn", "pnpm", "bun", "uvx"}
\* config.command && !StdCommands.includes(config.command.split('/').pop())
shouldTestExecutable(c) ==
    Truthy(c.command) /\ c.command.s[Len(c.command.s)] \notin StdCommands

\* testExecutablePath(command) when it returns valid: the launches it makes.
\* A command with a '/' is checked on the file system, any other with `which`.
testExecutableLaunches(command, valid) ==
    (IF Len(command) > 1 THEN <<>>
     ELSE <<ShellLaunch("test", L("which ") \o command, IF valid THEN 0 ELSE 1, "ok")>>)
    \o (IF valid THEN <<ShellLaunch("test", command \o L(" --version"), 0, "ok")>>
        ELSE <<>>)

\* getInteractiveConfig without --force: the executable is tested; when the
\* test fails the user is asked whether to continue, else the questions
\* (scope, name, confirmation) are asked
AskLocal(p) ==
    /\ pc[p] = "config"
    /\ ~flags[p].generateCommand
    /\ ~flags[p].isForce
    /\ ~config[p].isUrlBased
    /\ IF shouldTestExecutable(config[p])
       THEN \E valid \in BOOLEAN :
              /\ procs' = Log(procs, p, testExecutableLaunches(config[p].command.s, valid))
              /\ IF valid
                 THEN /\ prompts' = Log(prompts, p, <<"scope", "serverName", "confirm">>)
                      /\ pc' = [pc EXCEPT ![p] = "ask"]
                 ELSE /\ prompts' = Log(prompts, p, <<"continueAnyway">>)
                      /\ pc' = [pc EXCEPT ![p] = "askExe"]
       ELSE /\ prompts' = Log(prompts, p, <<"scope", "serverName", "confirm">>)
            /\ pc' = [pc EXCEPT ![p] = "ask"]
            /\ UNCHANGED procs
    /\ UNCHANGED <<flags, jsonIn, parses, projectName, config, jsonMode, serverName, scope,
                   existingConfig, reads, shown, result, exitCode, fsVars>>

\* the answer to "Executable test failed. Continue anyway?"
AnswerExe(p) ==
    /\ pc[p] = "askExe"
    /\ \/ /\ Exit(p, 1, "none")
          /\ UNCHANGED prompts
       \/ /\ prompts' = Log(prompts, p, <<"scope", "serverName", "confirm">>)
          /\ pc' = [pc EXCEPT ![p] = "ask"]
          /\ UNCHANGED <<result, exitCode>>
    /\ UNCHANGED <<flags, jsonIn, parses, projectName, config, jsonMode, serverName, scope,
                   existingConfig, reads, procs, shown, fsVars>>

\* the scopes the scope question offers
ScopeChoices(p) ==
    IF flags[p].useGemini \/ flags[p].useOpenCode
    THEN {L("user"), L("project")}
    ELSE {L("user"), L("local"), L("project")}
\* the names the name question accepts (its validate function), trimmed
PromptNames(p) ==
    {Trim(n) : n \in {m \in {NameOK, NameLong, defaultServerName(p)} :
                        Trim(m) # <<>> /\ MatchesNameRegex(Trim(m))}}

\* the answers of getInteractiveConfig's questions
Answer(p) ==
    /\ pc[p] = "ask"
    /\ \/ /\ Exit(p, 0, "none")
          /\ UNCHANGED <<serverName, scope>>
       \/ \E sc \in ScopeChoices(p), n \in PromptNames(p) : CallAdapter(p, n, sc)
    /\ UNCHANGED <<flags, jsonIn, parses, projectName, config, jsonMode, existingConfig, reads,
                   prompts, procs, shown, fsVars>>

\* the answers of the questions for a URL-based configuration; the chosen
\* transport replaces config.transport
AnswerURL(p) ==
    /\ pc[p] = "urlAsk"
    /\ \/ /\ Exit(p, 0, "none")
          /\ UNCHANGED <<serverName, scope, config>>
       \/ \E sc \in ScopeChoices(p), n \in PromptNames(p), tr \in Transports :
            /\ config' = [config EXCEPT ![p].transport = Str(tr)]
            /\ CallAdapter(p, n, sc)
    /\ UNCHANGED <<flags, jsonIn, parses, projectName, jsonMode, existingConfig, reads, prompts,
                   procs, shown, fsVars>>

(***************************************************************************)
(* The Claude adapter.                                                     *)
(***************************************************************************)
\* how the claude executable is found: by `which`, in a conventional
\* directory, only by running it, or not at all
Avail == {"which", "path", "version", "none"}
\* what the output of the claude command contains
Outs == {"ok", "error", "ERROR"}

\* findClaudeCodeInstallation and the `claude --version` fallback
ClaudeProbe(avail) ==
    <<ShellLaunch("probe", L("which claude"), IF avail = "which" THEN 0 ELSE 1, "ok")>>
    \o (IF avail \in {"version", "none"}
        THEN <<ShellLaunch("probe", L("claude --version"),
                           IF avail = "version" THEN 0 ELSE 1, "ok")>>
        ELSE <<>>)

\* result.includes('error') || result.includes('Error') || result.includes('failed')
ClaudeOutputHasError(out) == out \in {"error", "Error", "failed"}

\* the body shared by executeClaudeMCPAdd and executeClaudeMCPAddURL once the
\* command string is built: dry-run, the probe, execSync(command), and main's
\* exit on the result
ClaudeRun(p, command) ==
    IF isDryRun(p)
    THEN /\ shown' = Log(shown, p, <<ShownText(command)>>)
         /\ Exit(p, 0, "true")
         /\ UNCHANGED procs
    ELSE /\ \E avail \in Avail :
              IF avail = "none"
              THEN /\ procs' = Log(procs, p, ClaudeProbe(avail))
                   /\ Exit(p, 1, "threw")
              ELSE \E st \in {0, 1}, out \in Outs :
                     /\ st = 1 => out = "ok"
                     /\ procs' = Log(procs, p, ClaudeProbe(avail)
                                       \o <<ShellLaunch("add", command, st, out)>>)
                     /\ IF st = 0 /\ ~ClaudeOutputHasError(out)
                        THEN Exit(p, 0, "true")
                        ELSE Exit(p, 1, "false")
         /\ UNCHANGED shown

\* executeClaudeMCPAddURL(config, serverName, scope)
executeClaudeMCPAddURL(p) ==
    /\ pc[p] = "claudeURL"
    /\ LET transport == Or(config[p].transport, Str(L("sse"))).s
           command == L("claude mcp add --transport ") \o transport \o L(" ")
                      \o serverName[p] \o L(" ") \o Interp(config[p].url)
       IN  ClaudeRun(p, command)
    /\ UNCHANGED <<flags, jsonIn, parses, projectName, config, jsonMode, serverName, scope,
                   existingConfig, reads, prompts, fsVars>>

\* executeClaudeMCPAdd(config, serverName, scope)
executeClaudeMCPAdd(p) ==
    /\ pc[p] = "claude"
    /\ ClaudeRun(p, generateClaudeCommand(config[p], serverName[p], scope[p]))
    /\ UNCHANGED <<flags, jsonIn, parses, projectName, config, jsonMode, serverName, scope,
                   existingConfig, reads, prompts, fsVars>>

(***************************************************************************)
(* The Gemini adapter.                                                     *)
(***************************************************************************)
\* an argument array that always carries the scope flag
buildGeminiMCPAddArgs_Scoped(c, name, sc) ==
    [ok |-> validateServerName(Str(name)).ok /\ validateScope(sc, FALSE).ok,
     v |-> <<L("mcp"), L("add"), L("--scope"), validateScope(sc, FALSE).v,
             validateServerName(Str(name)).v, Interp(c.command)>>]
\* buildGeminiMCPAddArgs(config, serverName, scope): [ok, v]
buildGeminiMCPAddArgs(c, name, sc) ==
    LET vn == validateServerName(Str(name))
        vs == validateScope(sc, FALSE)
    IN  IF ~vn.ok \/ ~vs.ok THEN [ok |-> FALSE, v |-> <<>>]
        ELSE [ok |-> TRUE,
              v |-> <<L("mcp"), L("add")>>
                    \o (IF vs.v # L("user") THEN <<L("--scope"), vs.v>> ELSE <<>>)
                    \o <<vn.v, Interp(c.command)>>
                    \o (IF Truthy(c.args) /\ Len(c.args.a) > 0
                        THEN [i \in DOMAIN c.args.a |-> c.args.a[i].s]
                        ELSE <<>>)]

\* findGeminiCLIInstallation and the `gemini --version` fallback
GeminiProbe(avail) ==
    <<ShellLaunch("probe", L("which gemini"), IF avail = "which" THEN 0 ELSE 1, "ok")>>
    \o (IF avail \in {"version", "none"}
        THEN <<SpawnLaunch("probe", L("gemini"), <<L("--version")>>,
                           IF avail = "version" THEN 0 ELSE 1)>>
        ELSE <<>>)

\* a body that launches the add command a second time after it failed
GeminiRun_Retry(p, built, display) ==
    /\ procs' = Log(procs, p, <<SpawnLaunch("add", L("gemini"), built.v, 1),
                                SpawnLaunch("add", L("gemini"), built.v, 1)>>)
    /\ Exit(p, 1, "false")
    /\ UNCHANGED shown
\* the body shared by executeGeminiMCPAdd and executeGeminiMCPAddURL once the
\* inputs are validated: dry-run, the probe, spawnSync('gemini', args), and
\* main's exit on the result
GeminiRun(p, built, display) ==
    IF ~built.ok
    THEN /\ Exit(p, 1, "false")
         /\ UNCHANGED <<procs, shown>>
    ELSE IF isDryRun(p)
    THEN /\ shown' = Log(shown, p, <<ShownText(display)>>)
         /\ Exit(p, 0, "true")
         /\ UNCHANGED procs
    ELSE /\ \E avail \in Avail :
              IF avail = "none"
              THEN /\ procs' = Log(procs, p, GeminiProbe(avail))
                   /\ Exit(p, 1, "false")
              ELSE \E st \in {0, 1} :
                     /\ procs' = Log(procs, p, GeminiProbe(avail)
                                       \o <<SpawnLaunch("add", L("gemini"), built.v, st)>>)
                     /\ IF st = 0 THEN Exit(p, 0, "true") ELSE Exit(p, 1, "false")
         /\ UNCHANGED shown

\* executeGeminiMCPAdd(config, serverName, scope)
executeGeminiMCPAdd(p) ==
    /\ pc[p] = "gemini"
    /\ GeminiRun(p, buildGeminiMCPAddArgs(config[p], serverName[p], scope[p]),
                 generateGeminiMCPCommand(config[p], serverName[p], scope[p]).v)
    /\ UNCHANGED <<flags, jsonIn, parses, projectName, config, jsonMode, serverName, scope,
                   existingConfig, reads, prompts, fsVars>>

\* the validation and the argument array of executeGeminiMCPAddURL: [ok, v, display]
buildGeminiURLArgs(c, name, sc) ==
    LET vn == validateServerName(Str(name))
        vs == validateScope(sc, FALSE)
        vt == validateTransport(Or(c.transport, Str(L("http"))).s, FALSE)
        vu == validateURL(c.url)
    IN  IF ~vn.ok \/ ~vs.ok \/ ~vt.ok \/ ~vu.ok
        THEN [ok |-> FALSE, v |-> <<>>, display |-> <<>>]
        ELSE [ok |-> TRUE,
              v |-> <<L("mcp"), L("add"), L("--transport"), vt.v>>
                    \o (IF vs.v # L("user") THEN <<L("--scope"), vs.v>> ELSE <<>>)
                    \o <<vn.v, vu.v>>,
              display |-> L("gemini mcp add --transport ") \o vt.v
                          \o (IF vs.v # L("user") THEN L(" --scope ") \o vs.v ELSE <<>>)
                          \o L(" ") \o shellEscape(vn.v) \o L(" ") \o shellEscape(vu.v)]

\* executeGeminiMCPAddURL(config, serverName, scope)
executeGeminiMCPAddURL(p) ==
    /\ pc[p] = "geminiURL"
    /\ LET built == buildGeminiURLArgs(config[p], serverName[p], scope[p])
       IN  GeminiRun(p, built, built.display)
    /\ UNCHANGED <<flags, jsonIn, parses, projectName, config, jsonMode, serverName, scope,
                   existingConfig, reads, prompts, fsVars>>

(***************************************************************************)
(* The OpenCode adapter: executeOpenCodeMCPAdd, one action per blocking    *)
(* step (a file-system call or the prompt), so that two runs interleave.   *)
(***************************************************************************)
\* findOpenCodeMCPConfigPath(scope)
findOpenCodeMCPConfigPath(sc) ==
    IF sc = L("user") THEN "user"
    ELSE IF sc = L("project") THEN "project"
    ELSE "user"

\* validatedName and configPath of the call in progress
OCName(p) == validateServerName(Str(serverName[p])).v
OCPath(p) == findOpenCodeMCPConfigPath(validateScope(scope[p], FALSE).v)

\* an entry of the file-system log
FsEvent(op, path, p, content) ==
    [op |-> op, path |-> path, by |-> p, content |-> content]

\* the validation, the path, the conversion and the dry-run return
OCEnter(p) ==
    /\ pc[p] = "opencode"
    /\ IF ~validateServerName(Str(serverName[p])).ok \/ ~validateScope(scope[p], FALSE).ok
       THEN /\ Exit(p, 1, "threw")
            /\ UNCHANGED shown
       ELSE IF isDryRun(p)
       THEN /\ shown' = Log(shown, p, <<ShownJson(convertToOpenCodeFormat(config[p]))>>)
            /\ Exit(p, 0, "true")
       ELSE /\ pc' = [pc EXCEPT ![p] = "oc_dir"]
            /\ UNCHANGED <<shown, result, exitCode>>
    /\ UNCHANGED <<flags, jsonIn, parses, projectName, config, jsonMode, serverName, scope,
                   existingConfig, reads, prompts, procs, fsVars>>

\* if (!fs.existsSync(configDir)) fs.mkdirSync(configDir, {recursive: true});
\* the directory of the project file is the working directory, which exists
OCEnsureDir(p) ==
    /\ pc[p] = "oc_dir"
    /\ IF OCPath(p) = "user" /\ ~fsDir
       THEN \/ /\ fsDir' = TRUE
               /\ fsLog' = Append(fsLog, FsEvent("mkdir", OCPath(p), p, Absent))
               /\ pc' = [pc EXCEPT ![p] = "oc_read"]
               /\ UNCHANGED <<result, exitCode>>
            \/ /\ Exit(p, 1, "false")
               /\ UNCHANGED <<fsDir, fsLog>>
       ELSE /\ pc' = [pc EXCEPT ![p] = "oc_read"]
            /\ UNCHANGED <<fsDir, fsLog, result, exitCode>>
    /\ UNCHANGED <<flags, jsonIn, parses, projectName, config, jsonMode, serverName, scope,
                   existingConfig, reads, prompts, procs, shown, fsFile>>

\* an adapter that never finds the server in the document
ServerExists_Never(m, name) == FALSE
\* if (existingConfig.mcp[validatedName])
ServerExists(m, name) == Truthy(GetProp(m, name))

\* "Ensure proper structure" and "Check if server already exists", on the
\* document doc: a TypeError (caught: return false), the overwrite prompt,
\* or straight on to the write
OCStructure(p, doc) ==
    LET d1 == IF ~Truthy(GetProp(doc, K_schema))
              THEN SetProp(doc, K_schema, Str(SchemaURL)) ELSE doc
        d2 == IF ~Truthy(GetProp(d1, K_mcp)) THEN SetProp(d1, K_mcp, EmptyObj) ELSE d1
        m == GetProp(d2, K_mcp)
    IN  IF GetThrows(doc)
        THEN /\ Exit(p, 1, "false")
             /\ UNCHANGED <<existingConfig, prompts>>
        ELSE /\ existingConfig' = [existingConfig EXCEPT ![p] = d2]
             /\ IF GetThrows(m)
                THEN /\ Exit(p, 1, "false")
                     /\ UNCHANGED prompts
                ELSE IF ServerExists(m, OCName(p))
                THEN /\ prompts' = Log(prompts, p, <<"overwrite">>)
                     /\ pc' = [pc EXCEPT ![p] = "oc_prompt"]
                     /\ UNCHANGED <<result, exitCode>>
                ELSE /\ pc' = [pc EXCEPT ![p] = "oc_write"]
                     /\ UNCHANGED <<prompts, result, exitCode>>

\* existsSync(configPath), readFileSync and JSON.parse
OCRead(p) ==
    /\ pc[p] = "oc_read"
    /\ LET content == fsFile[OCPath(p)]
       IN  /\ fsLog' = Append(fsLog, FsEvent("read", OCPath(p), p, content))
           /\ IF content = Absent THEN OCStructure(p, EmptyObj)
              ELSE IF content.t = "json" THEN OCStructure(p, content.v)
              ELSE /\ pc' = [pc EXCEPT ![p] = "oc_backup"]
                   /\ UNCHANGED <<existingConfig, prompts, result, exitCode>>
    /\ UNCHANGED <<flags, jsonIn, parses, projectName, config, jsonMode, serverName, scope,
                   reads, procs, shown, fsFile, fsDir>>

\* JSON.parse threw: copyFileSync(configPath, configPath.backup.<now>), then
\* existingConfig = {}
OCBackup(p) ==
    /\ pc[p] = "oc_backup"
    /\ \/ /\ fsLog' = Append(fsLog, FsEvent("backup", OCPath(p), p, fsFile[OCPath(p)]))
          /\ OCStructure(p, EmptyObj)
       \/ /\ Exit(p, 1, "false")
          /\ UNCHANGED <<fsLog, existingConfig, prompts>>
    /\ UNCHANGED <<flags, jsonIn, parses, projectName, config, jsonMode, serverName, scope,
                   reads, procs, shown, fsFile, fsDir>>

\* the answer to "Overwrite existing configuration?"; declined, the run
\* logs the cancellation and returns false
OCAnswer(p) ==
    /\ pc[p] = "oc_prompt"
    /\ \/ /\ prompts' = Log(prompts, p, <<"overwrite=no">>)
          /\ shown' = Log(shown, p, <<ShownText(L("Cancelled - server not overwritten"))>>)
          /\ Exit(p, 1, "false")
       \/ /\ prompts' = Log(prompts, p, <<"overwrite=yes">>)
          /\ pc' = [pc EXCEPT ![p] = "oc_write"]
          /\ UNCHANGED <<shown, result, exitCode>>
    /\ UNCHANGED <<flags, jsonIn, parses, projectName, config, jsonMode, serverName, scope,
                   existingConfig, reads, procs, fsVars>>

\* an adapter that writes a document holding only the added server
OCMerged_Fresh(p) ==
    Obj(<<KV(K_schema, Str(SchemaURL)),
          KV(K_mcp, Obj(<<KV(OCName(p), convertToOpenCodeFormat(config[p]))>>))>>)
\* an adapter that merges into the document the file holds at write time
OCMerged_Reread(p) ==
    LET cur == fsFile[OCPath(p)]
        base == IF cur.t = "json" /\ cur.v.t = "obj" /\ GetProp(cur.v, K_mcp).t = "obj"
                THEN cur.v ELSE existingConfig[p]
    IN  SetProp(base, K_mcp,
                SetProp(GetProp(base, K_mcp), OCName(p), convertToOpenCodeFormat(config[p])))
\* existingConfig.mcp[validatedName] = openCodeServerConfig
OCMerged(p) ==
    LET m == GetProp(existingConfig[p], K_mcp)
    IN  SetProp(existingConfig[p], K_mcp,
                SetProp(m, OCName(p), convertToOpenCodeFormat(config[p])))

\* the assignment, JSON.stringify and writeFileSync
OCWrite(p) ==
    /\ pc[p] = "oc_write"
    /\ existingConfig' = [existingConfig EXCEPT ![p] = OCMerged(p)]
    /\ \/ /\ fsFile' = [fsFile EXCEPT ![OCPath(p)] = Json(Persist(OCMerged(p)))]
          /\ fsLog' = Append(fsLog, FsEvent("write", OCPath(p), p,
                                            Json(Persist(OCMerged(p)))))
          /\ Exit(p, 0, "true")
       \/ /\ Exit(p, 1, "false")
          /\ UNCHANGED <<fsFile, fsLog>>
    /\ UNCHANGED <<flags, jsonIn, parses, projectName, config, jsonMode, serverName, scope,
                   reads, prompts, procs, shown, fsDir>>

(***************************************************************************)
(* One run of the tool.                                                    *)
(***************************************************************************)
Next ==
    \E p \in Procs :
        \/ ReadJson(p) \/ AutoDetect(p) \/ Menu(p) \/ MenuJson(p) \/ MenuAuto(p)
        \/ FallbackJson(p) \/ FallbackExit(p)
        \/ Generate(p) \/ ForceAdd(p) \/ AskURL(p) \/ AskLocal(p) \/ AnswerExe(p)
        \/ Answer(p) \/ AnswerURL(p)
        \/ executeClaudeMCPAddURL(p) \/ executeClaudeMCPAdd(p)
        \/ executeGeminiMCPAddURL(p) \/ executeGeminiMCPAdd(p)
        \/ OCEnter(p) \/ OCEnsureDir(p) \/ OCRead(p) \/ OCBackup(p) \/ OCAnswer(p)
        \/ OCWrite(p)

Spec == Init /\ [][Next]_vars

(***************************************************************************)
(* The adapters as units: one adapter call with any arguments.             *)
(***************************************************************************)
AdapterNames == {NameOK, NameInj, NameLong, <<>>}
AdapterScopes == {L("user"), L("local"), L("project"), L("global"), <<>>}
AdapterFlags ==
    {f \in AllFlags : /\ ~f.generateCommand /\ ~f.isForce
                      /\ ~(f.useGemini /\ f.useOpenCode)
                      /\ ~f.useClipboard /\ ~f.jsonInput /\ ~f.jsonFileInput
                      /\ ~f.autoDetectMode}

InitAdapter ==
    /\ jsonIn = [p \in Procs |-> Undef]
    /\ \E f \in AdapterFlags : flags = [p \in Procs |-> IF p = 1 THEN f ELSE IdleFlags]
    /\ projectName = [p \in Procs |-> NameOK]
    /\ \E c \in JsonConfigs :
          /\ config = [p \in Procs |-> IF p = 1 THEN c ELSE NoConfig]
          /\ pc = [p \in Procs |-> IF p = 1 THEN AdapterPc(1) ELSE "off"]
    /\ jsonMode = [p \in Procs |-> p = 1]
    /\ \E n \in AdapterNames : serverName = [p \in Procs |-> IF p = 1 THEN n ELSE <<>>]
    /\ \E sc \in AdapterScopes : scope = [p \in Procs |-> IF p = 1 THEN sc ELSE <<>>]
    /\ existingConfig = [p \in Procs |-> Undef]
    /\ reads = [p \in Procs |-> <<>>]
    /\ prompts = [p \in Procs |-> <<>>]
    /\ procs = [p \in Procs |-> <<>>]
    /\ shown = [p \in Procs |-> <<>>]
    /\ parses = [p \in Procs |-> <<>>]
    /\ result = [p \in Procs |-> "none"]
    /\ exitCode = [p \in Procs |-> -1]
    /\ fsLog = <<>>
    /\ \E d \in {Absent, Garbage, Json(EmptyObj)} :
          /\ d # Absent => flags[1].useOpenCode
          /\ fsFile = [path \in Paths |-> d]
          /\ fsDir \in (IF d = Absent /\ flags[1].useOpenCode THEN BOOLEAN ELSE {TRUE})

NextAdapter ==
    \E p \in Procs :
        \/ executeClaudeMCPAddURL(p) \/ executeClaudeMCPAdd(p)
        \/ executeGeminiMCPAddURL(p) \/ executeGeminiMCPAdd(p)
        \/ OCEnter(p) \/ OCEnsureDir(p) \/ OCRead(p) \/ OCBackup(p) \/ OCWrite(p)

SpecAdapter == InitAdapter /\ [][NextAdapter]_vars

(***************************************************************************)
(* Two concurrent calls of the OpenCode adapter on the user config file.   *)
(***************************************************************************)
RaceNames == {NameOK, NameOther}
RaceConfigs ==
    {LocalConfig(Str(L("npx")), <<L("-y")>>, EmptyObj, Undef),
     RemoteConfig(UrlGood, L("http"), Undef)}
RaceFlags ==
    {f \in AllFlags : /\ f.useOpenCode /\ ~f.useGemini /\ ~f.isDryRun
                      /\ ~f.generateCommand /\ f.jsonInput /\ ~f.useClipboard}
RaceFiles ==
    {Absent, Garbage, Json(EmptyObj),
     Json(Obj(<<KV(K_mcp, Obj(<<KV(NameOK, EntryOld)>>))>>))}

InitRace ==
    /\ jsonIn = [p \in Procs |-> Undef]
    /\ \E f \in RaceFlags : flags = [p \in Procs |-> f]
    /\ projectName = [p \in Procs |-> NameOK]
    /\ config \in [Procs -> RaceConfigs]
    /\ pc = [p \in Procs |-> "opencode"]
    /\ jsonMode = [p \in Procs |-> TRUE]
    /\ serverName \in [Procs -> RaceNames]
    /\ scope = [p \in Procs |-> L("user")]
    /\ existingConfig = [p \in Procs |-> Undef]
    /\ reads = [p \in Procs |-> <<"json">>]
    /\ prompts = [p \in Procs |-> <<>>]
    /\ procs = [p \in Procs |-> <<>>]
    /\ shown = [p \in Procs |-> <<>>]
    /\ parses = [p \in Procs |-> <<Attempt("direct", FALSE)>>]
    /\ result = [p \in Procs |-> "none"]
    /\ exitCode = [p \in Procs |-> -1]
    /\ fsLog = <<>>
    /\ \E d \in RaceFiles :
          /\ fsFile = [path \in Paths |-> d]
          /\ fsDir \in (IF d = Absent THEN BOOLEAN ELSE {TRUE})

NextRace ==
    \E p \in Procs :
        \/ OCEnter(p) \/ OCEnsureDir(p) \/ OCRead(p) \/ OCBackup(p) \/ OCAnswer(p)
        \/ OCWrite(p)

SpecRace == InitRace /\ [][NextRace]_vars

(***************************************************************************)
(* The JSON input step alone: one run with a JSON source reads a document  *)
(* and normalizes it, for a larger set of documents.                        *)
(***************************************************************************)
\* the documents with any of these fields, bare or wrapped under a key
ParseFields ==
    {<<KV(L("command"), c), KV(L("url"), u), KV(L("args"), a), KV(L("env"), e),
       KV(L("transport"), t)>> :
        c \in {Undef, Str(L("npx"))}, u \in {Undef, Str(UrlGood)},
        a \in {Undef, JsArgs(<<L("-y")>>)},
        e \in {Undef, Obj(<<KV(L("K"), Str(L("v")))>>)},
        t \in {Undef, Str(L("ws"))}}
ParseKeys == {Undef, Str(NameOK), Str(L("env"))}
ParseInputs ==
    {JsonDoc(f, k) : f \in ParseFields, k \in ParseKeys}
    \cup {Null, Num(7), Arr(<<>>),
          Arr(<<JsonDoc(<<KV(L("command"), Str(L("npx")))>>, Undef)>>),
          Obj(<<KV(NameOK, Null)>>), Obj(<<KV(NameOK, Arr(<<>>))>>),
          Obj(<<KV(NameOK, Str(L("npx")))>>),
          Obj(<<KV(L("args"), JsArgs(<<L("-y")>>))>>),
          JsonDoc(<<KV(NameOK, JsonDoc(<<KV(L("command"), Str(L("npx")))>>, Undef))>>,
                  Str(NameOther))}
ParseFlags ==
    {f \in AllFlags : /\ Source(f) \in {"clipboard", "json", "file"}
                      /\ ~f.generateCommand /\ ~f.isForce /\ ~f.isDryRun}

InitParse ==
    /\ InitRuns({1})
    /\ \E f \in ParseFlags : flags = [p \in Procs |-> IF p = 1 THEN f ELSE IdleFlags]
    /\ \E j \in ParseInputs : jsonIn = [p \in Procs |-> IF p = 1 THEN j ELSE Undef]
    /\ projectName = [p \in Procs |-> NameOK]
    /\ fsFile = [path \in Paths |-> Absent]
    /\ fsDir = TRUE

NextParse == \E p \in Procs : ReadJson(p)

SpecParse == InitParse /\ [][NextParse]_vars

(***************************************************************************)
(* Edit mode: handleEditMode on one configuration file. A file is the      *)
(* lines of its text (each line the tokens on it), the keys of its server  *)
(* container as JSON.parse gives them, and the line of each key.           *)
(***************************************************************************)
Q(name) == "\"" \o name \o "\""
\* the file with the entries of names, in order, after the lines of pre
EditFile(pre, names, bodies) ==
    LET entryLines ==
            [k \in 1..(3 * Len(names)) |->
                LET i == (k + 2) \div 3
                IN  CASE k = 3 * i - 2 -> <<Q(names[i]), ":", "{">>
                      [] k = 3 * i - 1 -> bodies[i]
                      [] OTHER -> IF i < Len(names) THEN <<"}", ",">> ELSE <<"}">>]
    IN  [lines |-> << <<"{">> >> \o pre \o << <<Q("mcpServers"), ":", "{">> >>
                   \o entryLines \o << <<"}">>, <<"}">> >>,
         servers |-> names,
         entryLine |-> [i \in DOMAIN names |-> Len(pre) + 3 * i]]
\* files with servers a and b; before the container no line, a top-level
\* key with the name of a server, or a string value with the name of a
\* server; inside an entry a command, or arguments naming a server
EditFiles ==
    LET preambles ==
            {<<>>} \cup {<< <<Q(n), ":", "1", ",">> >> : n \in {"a", "b"}}
                   \cup {<< <<Q("title"), ":", Q(n), ",">> >> : n \in {"a", "b"}}
        entryBodies ==
            {<<Q("command"), ":", Q("npx")>>}
            \cup {<<Q("args"), ":", "[", Q(n), "]">> : n \in {"a", "b"}}
    IN  {EditFile(pre, names, bodies) :
            pre \in preambles,
            names \in {<<>>, <<"a">>, <<"b">>, <<"a", "b">>, <<"b", "a">>},
            bodies \in [1..2 -> entryBodies]}
EditPath == L("~/.claude.json")
Editors == {"nano", "code", "gedit"}

\* listServersInConfig(configPath): name and line of the servers found, the
\* line being the first with `"name"` and a colon on it
listServersInConfig(file) ==
    LET names(line, n) ==
            /\ \E i \in DOMAIN line : line[i] = Q(n)
            /\ \E i \in DOMAIN line : line[i] = ":"
        found(n) == {i \in DOMAIN file.lines : names(file.lines[i], n)}
        min(S) == CHOOSE i \in S : \A j \in S : i <= j
        listed == SelectSeq(file.servers, LAMBDA n : found(n) # {})
    IN  [k \in DOMAIN listed |-> [name |-> listed[k], line |-> min(found(listed[k]))]]
\* openEditorAtLine(editor, filePath, lineNumber)
openEditorAtLine(editor, filePath, lineNumber) ==
    CASE editor = "nano" -> <<editor, " +", ToString(lineNumber), " \"">> \o filePath \o L("\"")
      [] editor = "code" ->
            <<editor, " -g \"">> \o filePath \o <<":", ToString(lineNumber), "\"">>
      [] OTHER -> <<editor, " \"">> \o filePath \o L("\"")

\* handleEditMode up to the server menu: with no server found the editor is
\* opened on the file and the run ends
EditList(p) ==
    /\ pc[p] = "edit"
    /\ IF listServersInConfig(fsFile[EditPath]) = <<>>
       THEN \E editor \in Editors, status \in {0, 1} :
               /\ procs' = Log(procs, p,
                      <<ShellLaunch("edit", <<editor, " \"">> \o EditPath \o L("\""),
                                    status, "ok")>>)
               /\ Exit(p, status, "none")
               /\ UNCHANGED prompts
       ELSE /\ prompts' = Log(prompts, p, <<"selectedServer">>)
            /\ pc' = [pc EXCEPT ![p] = "edit_pick"]
            /\ UNCHANGED <<procs, result, exitCode>>
    /\ UNCHANGED <<flags, jsonIn, parses, projectName, config, jsonMode, serverName, scope,
                   existingConfig, reads, shown, fsVars>>
\* the answer to the server menu: the editor is opened at the line of the
\* server chosen
EditOpen(p) ==
    /\ pc[p] = "edit_pick"
    /\ \E k \in DOMAIN listServersInConfig(fsFile[EditPath]),
          editor \in Editors, status \in {0, 1} :
          LET server == listServersInConfig(fsFile[EditPath])[k]
          IN  /\ serverName' = [serverName EXCEPT ![p] = L(server.name)]
              /\ shown' = Log(shown, p, <<ShownText(<<"Line: ", ToString(server.line)>>)>>)
              /\ procs' = Log(procs, p,
                     <<ShellLaunch("edit", openEditorAtLine(editor, EditPath, server.line),
                                   status, "ok")>>)
              /\ Exit(p, status, "none")
    /\ UNCHANGED <<flags, jsonIn, parses, projectName, config, jsonMode, scope,
                   existingConfig, reads, prompts, fsVars>>

InitEdit ==
    /\ flags = [p \in Procs |-> IdleFlags]
    /\ jsonIn = [p \in Procs |-> Undef]
    /\ parses = [p \in Procs |-> <<>>]
    /\ projectName = [p \in Procs |-> NameOK]
    /\ pc = [p \in Procs |-> IF p = 1 THEN "edit" ELSE "off"]
    /\ config = [p \in Procs |-> NoConfig]
    /\ jsonMode = [p \in Procs |-> FALSE]
    /\ serverName = [p \in Procs |-> <<>>]
    /\ scope = [p \in Procs |-> <<>>]
    /\ existingConfig = [p \in Procs |-> Undef]
    /\ reads = [p \in Procs |-> <<>>]
    /\ prompts = [p \in Procs |-> <<>>]
    /\ procs = [p \in Procs |-> <<>>]
    /\ shown = [p \in Procs |-> <<>>]
    /\ result = [p \in Procs |-> "none"]
    /\ exitCode = [p \in Procs |-> -1]
    /\ \E f \in EditFiles : fsFile = [path \in {EditPath} |-> f]
    /\ fsDir = TRUE
    /\ fsLog = <<>>

NextEdit == \E p \in Procs : EditList(p) \/ EditOpen(p)

SpecEdit == InitEdit /\ [][NextEdit]_vars

(***************************************************************************)
(* Properties.                                                             *)
(***************************************************************************)
Range(s) == {s[i] : i \in DOMAIN s}
\* sub occurs in text as a run of consecutive chunks
Contains(text, sub) ==
    /\ sub # <<>>
    /\ \E i \in 1..(Len(text) - Len(sub) + 1) : SubSeq(text, i, i + Len(sub) - 1) = sub
AdapterPcs ==
    {"claude", "claudeURL", "gemini", "geminiURL", "opencode", "oc_dir", "oc_read",
     "oc_backup", "oc_prompt", "oc_write"}
\* the adapter of run p has been called
Called(p) == pc[p] \in AdapterPcs \/ result[p] # "none"
\* the launches of the target CLI in a launch log: its probe and its mcp add
CliLaunchesOf(log) == SelectSeq(log, LAMBDA l : l.role \in {"probe", "add"})
\* the calls in a file-system log by which run p changed the disk
FsChangesOf(log, p) ==
    SelectSeq(log, LAMBDA e : e.by = p /\ e.op \in {"mkdir", "backup", "write"})
HasRead(p) == \E i \in DOMAIN fsLog : fsLog[i].op = "read" /\ fsLog[i].by = p
\* what run p found at the config path when it read it
ReadContent(p) ==
    fsLog[CHOOSE i \in DOMAIN fsLog : fsLog[i].op = "read" /\ fsLog[i].by = p].content
Wrote(p) == \E i \in DOMAIN fsLog : fsLog[i].op = "write" /\ fsLog[i].by = p
\* the entry the OpenCode adapter renders for the configuration of run p
RenderedEntry(p) == Persist(convertToOpenCodeFormat(config[p]))
\* the mcp value of the document run p read (undefined if it has none)
ReadMcp(p) ==
    LET c == ReadContent(p)
    IN  IF c.t = "json" /\ ~GetThrows(c.v) THEN GetProp(c.v, K_mcp) ELSE Undef
\* the document run p read has an entry under the server name
HasEntry(p) == ReadMcp(p).t = "obj" /\ HasOwn(ReadMcp(p).kv, OCName(p))
\* ... and the entry's value is truthy
TruthyEntry(p) == HasEntry(p) /\ Truthy(OwnGet(ReadMcp(p).kv, OCName(p)))
CancelReport == ShownText(L("Cancelled - server not overwritten"))

\* C1: on the Claude and Gemini targets every launch of `mcp add` is a
\* no-shell launch with an argument vector, and no shell command string of a
\* CLI launch contains the server name or the URL.
C1_ArgvOnly ==
    \A p \in Procs : \A i \in DOMAIN procs[p] :
        LET l == procs[p][i]
        IN  /\ l.role = "add" => ~l.shell
            /\ (l.role \in {"probe", "add"} /\ l.shell) =>
                  /\ ~Contains(l.cmd, serverName[p])
                  /\ config[p].url.t = "str" => ~Contains(l.cmd, config[p].url.s)

\* the name, scope, transport or URL of the adapter call of run p is illegal
IllegalInput(p) ==
    \/ ~validateServerName(Str(serverName[p])).ok
    \/ ~validateScope(scope[p], Target(p) # "Claude").ok
    \/ /\ config[p].isUrlBased
       /\ \/ ~validateTransport(Or(config[p].transport, Str(L("sse"))).s, FALSE).ok
          \/ ~validateURL(config[p].url).ok

\* C2: when the server name, the scope, the transport or the URL of a
\* registration is illegal, the run launches no target CLI process and makes
\* no directory, backup or config file write.
C2_ValidateFirst ==
    \A p \in Procs :
        (Called(p) /\ IllegalInput(p)) =>
            /\ CliLaunchesOf(procs[p]) = <<>>
            /\ FsChangesOf(fsLog, p) = <<>>

C4_DryRunNoEffect ==
    [][\A p \in Procs :
          flags[p].isDryRun =>
              /\ fsFile' = fsFile
              /\ fsDir' = fsDir
              /\ CliLaunchesOf(procs'[p]) = <<>>
              /\ FsChangesOf(fsLog', p) = <<>>]_vars
\* a dry run on the OpenCode target over a corrupt file has returned true
C4_DryRunDone ==
    \E p \in Procs :
        /\ flags[p].isDryRun /\ Target(p) = "OpenCode"
        /\ result[p] = "true" /\ shown[p] # <<>>
        /\ fsFile[OCPath(p)] = Garbage

\* the document the recovery from a corrupt file should write
FreshDoc(p) ==
    Obj(<<KV(K_schema, Str(SchemaURL)),
          KV(K_mcp, Obj(<<KV(OCName(p), RenderedEntry(p))>>))>>)

\* C5: when the OpenCode adapter read a file that is not valid JSON and
\* returned true, a backup holding the original content was made before the
\* write, and the file holds a fresh document whose mcp mapping has only the
\* added server.
C5_CorruptRecovery ==
    \A p \in Procs :
        (Target(p) = "OpenCode" /\ HasRead(p) /\ result[p] = "true"
             /\ ReadContent(p).t = "text") =>
            /\ \E i, j \in DOMAIN fsLog :
                  /\ i < j
                  /\ fsLog[i] = FsEvent("backup", OCPath(p), p, ReadContent(p))
                  /\ fsLog[j].op = "write" /\ fsLog[j].by = p
            /\ fsFile[OCPath(p)] = Json(FreshDoc(p))

\* C6 as stated: an entry mcp[name] of the document read (a key with any
\* value) is replaced only after the overwrite prompt was answered yes; after
\* a declined prompt the run has written nothing, the file is as it was read,
\* the run returned false and reported the cancellation.
C6_ConfirmAnyEntry ==
    \A p \in Procs :
        (Target(p) = "OpenCode" /\ HasRead(p)) =>
            /\ (HasEntry(p) /\ Wrote(p)) => "overwrite=yes" \in Range(prompts[p])
            /\ "overwrite=no" \in Range(prompts[p]) =>
                  /\ ~Wrote(p)
                  /\ fsFile[OCPath(p)] = ReadContent(p)
                  /\ result[p] = "false"
                  /\ CancelReport \in Range(shown[p])

\* C6: an entry mcp[name] of the document read whose value is truthy is
\* replaced only after the overwrite prompt was answered yes (an entry whose
\* value is null is replaced without a prompt); after a declined prompt the
\* run has written nothing, the file is as it was read, the run returned
\* false and reported the cancellation.
C6_ConfirmTruthyEntry ==
    \A p \in Procs :
        (Target(p) = "OpenCode" /\ HasRead(p)) =>
            /\ (TruthyEntry(p) /\ Wrote(p)) => "overwrite=yes" \in Range(prompts[p])
            /\ "overwrite=no" \in Range(prompts[p]) =>
                  /\ ~Wrote(p)
                  /\ fsFile[OCPath(p)] = ReadContent(p)
                  /\ result[p] = "false"
                  /\ CancelReport \in Range(shown[p])
\* an existing entry has been replaced after a yes
C6_Replaced ==
    \E p \in Procs :
        /\ Wrote(p) /\ TruthyEntry(p) /\ result[p] = "true"
        /\ "overwrite=yes" \in Range(prompts[p])

\* the position in the file-system log of the write (read) of run p
WriteAt(p) == CHOOSE i \in DOMAIN fsLog : fsLog[i].op = "write" /\ fsLog[i].by = p
ReadAt(p) == CHOOSE i \in DOMAIN fsLog : fsLog[i].op = "read" /\ fsLog[i].by = p

\* C7: of two OpenCode runs under --force with the same configuration,
\* server name and scope, the one that reads the file after the other has
\* written it is asked nothing, and when it has returned true the file is
\* what the first run wrote.
C7_Idempotent ==
    \A p, q \in Procs :
        (/\ p # q /\ flags[p].isForce /\ flags[q].isForce
         /\ config[p] = config[q] /\ serverName[p] = serverName[q]
         /\ scope[p] = scope[q]
         /\ Wrote(q) /\ HasRead(p) /\ WriteAt(q) < ReadAt(p)) =>
            /\ prompts[p] = <<>>
            /\ result[p] = "true" => fsFile[OCPath(p)] = fsLog[WriteAt(q)].content

\* C8: a run with --force and an explicit input source issues no prompt, and
\* calls the adapter with scope user and the default server name.
C8_ForceNoPrompt ==
    \A p \in Procs :
        (/\ flags[p].isForce
         /\ \/ flags[p].useClipboard \/ flags[p].jsonInput
            \/ flags[p].jsonFileInput \/ flags[p].autoDetectMode) =>
            /\ prompts[p] = <<>>
            /\ Called(p) => (scope[p] = L("user") /\ serverName[p] = defaultServerName(p))

\* the reads and writes of the config file, in order
ReadsWrites == SelectSeq(fsLog, LAMBDA e : e.op \in {"read", "write"})
\* the file-system log is read p, read q, write p, write q
LostUpdateOrder(p, q) ==
    /\ Len(ReadsWrites) = 4
    /\ ReadsWrites[1].op = "read" /\ ReadsWrites[1].by = p
    /\ ReadsWrites[2].op = "read" /\ ReadsWrites[2].by = q
    /\ ReadsWrites[3].op = "write" /\ ReadsWrites[3].by = p
    /\ ReadsWrites[4].op = "write" /\ ReadsWrites[4].by = q

\* C9: with two concurrent OpenCode runs on one file, every run reads at most
\* once and writes at most once after its read, every write stores the whole
\* document its writer computed, the file is what the last write stored, and
\* after read1, read2, write1, write2 with different server names both runs
\* have returned true and the file lacks the entry of the first writer.
C9_LastWriterWins ==
    /\ \A p \in Procs :
          /\ Cardinality({i \in DOMAIN fsLog : fsLog[i].op = "read" /\ fsLog[i].by = p}) <= 1
          /\ Cardinality({i \in DOMAIN fsLog : fsLog[i].op = "write" /\ fsLog[i].by = p}) <= 1
          /\ Wrote(p) => (HasRead(p) /\ ReadAt(p) < WriteAt(p))
          /\ Wrote(p) => fsLog[WriteAt(p)].content = Json(Persist(existingConfig[p]))
    /\ \A path \in Paths :
          LET ws == SelectSeq(fsLog, LAMBDA e : e.op = "write" /\ e.path = path)
          IN  ws # <<>> => fsFile[path] = ws[Len(ws)].content
    /\ \A p, q \in Procs :
          (p # q /\ serverName[p] # serverName[q] /\ LostUpdateOrder(p, q)) =>
              /\ result[p] = "true" /\ result[q] = "true"
              /\ GetProp(GetProp(fsFile[OCPath(p)].v, K_mcp), OCName(p)) # RenderedEntry(p)
              /\ GetProp(GetProp(fsFile[OCPath(q)].v, K_mcp), OCName(q)) = RenderedEntry(q)
\* read1, read2, write1, write2 with two different server names has happened
C9_LostUpdate ==
    \E p, q \in Procs :
        /\ p # q /\ serverName[p] # serverName[q] /\ LostUpdateOrder(p, q)
        /\ result[p] = "true" /\ result[q] = "true"

\* C10: when the OpenCode adapter has returned true outside a dry run, the
\* config file is a JSON object with a $schema field and an mcp object whose
\* entry under the server name is the rendered entry.
C10_WellFormed ==
    \A p \in Procs :
        (Target(p) = "OpenCode" /\ ~flags[p].isDryRun /\ result[p] = "true") =>
            LET f == fsFile[OCPath(p)]
            IN  /\ f.t = "json"
                /\ f.v.t = "obj"
                /\ HasOwn(f.v.kv, K_schema)
                /\ HasOwn(f.v.kv, K_mcp)
                /\ OwnGet(f.v.kv, K_mcp).t = "obj"
                /\ HasOwn(OwnGet(f.v.kv, K_mcp).kv, OCName(p))
                /\ OwnGet(OwnGet(f.v.kv, K_mcp).kv, OCName(p)) = RenderedEntry(p)

\* run p added a server to a file that held a JSON object, and returned true
AddedToObject(p) ==
    /\ Target(p) = "OpenCode" /\ HasRead(p) /\ result[p] = "true"
    /\ ReadContent(p).t = "json" /\ ReadContent(p).v.t = "obj"
    /\ fsFile[OCPath(p)].t = "json" /\ fsFile[OCPath(p)].v.t = "obj"
\* the write of run p kept the rest of the document: the top-level keys
\* other than $schema and mcp, and the mcp entries of the other servers, are
\* the same before and after, and none was added
RestKept(p) ==
    LET old == ReadContent(p).v.kv
        new == fsFile[OCPath(p)].v.kv
        oldMcp == ReadMcp(p)
        newMcp == GetProp(fsFile[OCPath(p)].v, K_mcp)
    IN  /\ \A i \in DOMAIN old :
              old[i].k \notin {K_schema, K_mcp} =>
                  (HasOwn(new, old[i].k) /\ OwnGet(new, old[i].k) = old[i].v)
        /\ \A i \in DOMAIN new :
              new[i].k \notin {K_schema, K_mcp} => HasOwn(old, new[i].k)
        /\ oldMcp.t = "obj" =>
              /\ newMcp.t = "obj"
              /\ \A i \in DOMAIN oldMcp.kv :
                    oldMcp.kv[i].k # OCName(p) =>
                        /\ HasOwn(newMcp.kv, oldMcp.kv[i].k)
                        /\ OwnGet(newMcp.kv, oldMcp.kv[i].k) = oldMcp.kv[i].v
              /\ \A i \in DOMAIN newMcp.kv :
                    newMcp.kv[i].k # OCName(p) => HasOwn(oldMcp.kv, newMcp.kv[i].k)

\* C11 as stated: after a successful OpenCode add to a file that held a JSON
\* object, every other top-level key, every other mcp entry, and a $schema
\* value that was present (whatever it was) are as they were.
C11_FrameAnySchema ==
    \A p \in Procs :
        AddedToObject(p) =>
            /\ RestKept(p)
            /\ HasOwn(ReadContent(p).v.kv, K_schema) =>
                  GetProp(fsFile[OCPath(p)].v, K_schema) = GetProp(ReadContent(p).v, K_schema)

\* C11: after a successful OpenCode add to a file that held a JSON object,
\* every other top-level key, every other mcp entry, and a $schema value that
\* was present and truthy are as they were (a falsy $schema, such as "", is
\* replaced by the schema URL).
C11_FrameTruthySchema ==
    \A p \in Procs :
        AddedToObject(p) =>
            /\ RestKept(p)
            /\ Truthy(GetProp(ReadContent(p).v, K_schema)) =>
                  GetProp(fsFile[OCPath(p)].v, K_schema) = GetProp(ReadContent(p).v, K_schema)
\* a server has been added to a document with a custom $schema, another
\* top-level key and another server
C11_AddedBeside ==
    \E p \in Procs :
        /\ AddedToObject(p)
        /\ GetProp(ReadContent(p).v, K_schema) = Str(L("custom"))
        /\ HasOwn(ReadContent(p).v.kv, L("theme"))
        /\ ReadMcp(p).t = "obj" /\ HasOwn(ReadMcp(p).kv, NameOther)
        /\ OCName(p) # NameOther

\* two JSON objects with the same keys and the same value under each key
SameObject(a, b) ==
    /\ a.t = "obj" /\ b.t = "obj"
    /\ \A i \in DOMAIN a.kv : HasOwn(b.kv, a.kv[i].k) /\ OwnGet(b.kv, a.kv[i].k) = a.kv[i].v
    /\ \A i \in DOMAIN b.kv : HasOwn(a.kv, b.kv[i].k)
\* the OpenCode entry of a spec, as a JSON document holds it
OpenCodeEntryOf(c) ==
    Persist(Obj(
        IF c.isUrlBased
        THEN <<KV(L("type"), Str(L("remote"))), KV(L("enabled"), Bool(TRUE)),
               KV(L("url"), c.url)>>
        ELSE <<KV(L("type"), Str(L("local"))), KV(L("enabled"), Bool(TRUE)),
               KV(L("command"), Arr(<<c.command>> \o c.args.a))>>
             \o (IF c.env.t = "obj" /\ c.env.kv # <<>>
                 THEN <<KV(L("environment"), c.env)>> ELSE <<>>)))
\* the entry run p wrote under its server name, if the written document has one
WrittenMcp(p) == GetProp(fsLog[WriteAt(p)].content.v, K_mcp)
WroteEntry(p) ==
    /\ Target(p) = "OpenCode" /\ Wrote(p)
    /\ fsLog[WriteAt(p)].content.t = "json" /\ fsLog[WriteAt(p)].content.v.t = "obj"
    /\ WrittenMcp(p).t = "obj" /\ HasOwn(WrittenMcp(p).kv, OCName(p))
\* the snippets the generate-command mode of run p printed for OpenCode
SnippetsOf(p) ==
    IF flags[p].generateCommand /\ flags[p].useOpenCode
    THEN {e \in Range(shown[p]) : e.js # Undef}
    ELSE {}

\* C12: the entry the OpenCode adapter writes under the server name, and the
\* entry of the snippet generate-command mode prints, are both the entry of
\* the spec: type local, enabled true, command = [command] + args, and
\* environment exactly when env is non-empty; or type remote, enabled true,
\* url, and neither command nor environment.
C12_EntryShape ==
    \A p \in Procs :
        /\ WroteEntry(p) =>
              SameObject(OwnGet(WrittenMcp(p).kv, OCName(p)), OpenCodeEntryOf(config[p]))
        /\ \A e \in SnippetsOf(p) :
              /\ e.js.t = "obj" /\ Len(e.js.kv) = 1
              /\ SameObject(Persist(e.js.kv[1].v), OpenCodeEntryOf(config[p]))
\* a local entry with an environment has been written to the file
C12_EntryWritten ==
    \E p \in Procs :
        /\ WroteEntry(p) /\ result[p] = "true"
        /\ ~config[p].isUrlBased /\ config[p].env.t = "obj" /\ config[p].env.kv # <<>>

\* run p has normalized its JSON input into main's config
Parsed(p) == pc[p] = "config" /\ jsonMode[p] /\ jsonIn[p] # Undef

\* C13: every spec that parseJSONConfig gives for an input it accepts has
\* exactly one of command and url.
C13_CommandXorUrl ==
    \A p \in Procs :
        Parsed(p) => ((config[p].command # Undef) # (config[p].url # Undef))

\* the field names of a server configuration
ConfigFields ==
    {L("command"), L("url"), L("args"), L("env"), L("transport"), L("name"),
     L("description"), L("cwd"), L("enabled")}
\* a document of the wrapped form: one key that is not a configuration
\* field, whose value is an object (neither null nor an array)
IsWrapped(j) ==
    /\ j.t = "obj" /\ Len(j.kv) = 1
    /\ j.kv[1].v.t = "obj"
    /\ j.kv[1].k \notin ConfigFields

\* C14: an accepted input is unwrapped as a server exactly when it has one
\* key, the value under it is an object, and the key is not a configuration
\* field; the spec is then the spec of the inner document, with the key as
\* the suggested name. A single-key document whose value is null or an array,
\* or whose key is a field such as env or args, is not unwrapped.
C14_WrapperExact ==
    \A p \in Procs :
        Parsed(p) =>
            IF IsWrapped(jsonIn[p])
            THEN LET inner == generateMCPConfigFromJSON(jsonIn[p].kv[1].v,
                                                        flags[p].useGemini).v
                 IN  /\ config[p].extractedServerName = Str(jsonIn[p].kv[1].k)
                     /\ config[p].command = inner.command
                     /\ config[p].url = inner.url
                     /\ config[p].args = inner.args
                     /\ config[p].env = inner.env
            ELSE config[p].extractedServerName = Undef

\* the name a spec suggests: extractedServerName || name
SuggestedName(s) ==
    Or(GetProp(s, L("extractedServerName")), GetProp(s, L("name")))
\* C15: normalizing is idempotent: the JSON text of the spec an accepted
\* input gives is accepted, and gives a spec of the same kind with the same
\* command, args, env, description, cwd, url and transport, and the same
\* suggested name.
C15_NormalizeIdempotent ==
    \A p \in Procs :
        Parsed(p) =>
            LET s1 == Persist(parseJSONConfig(jsonIn[p], Null, flags[p].useGemini).v)
                s2 == parseJSONConfig(s1, Null, flags[p].useGemini)
            IN  /\ s2.ok
                /\ \A f \in {"isUrlBased", "command", "args", "env", "description",
                             "cwd", "url", "transport"} :
                      GetProp(s2.v, L(f)) = GetProp(s1, L(f))
                /\ SuggestedName(s2.v) = SuggestedName(s1)

\* ^[A-Za-z0-9_-]{1,64}$
NamePattern(s) ==
    /\ Len(s) \in 1..64
    /\ \A i \in DOMAIN s : s[i] \in Lower \cup Upper \cup Digit \cup {"_", "-"}
\* run p has registered a server: it launched the add command of a CLI, or
\* wrote the OpenCode config file
Registered(p) ==
    \/ \E i \in DOMAIN procs[p] : procs[p][i].role = "add"
    \/ Wrote(p)

\* C16: validateServerName returns the trimmed name exactly when the trimmed
\* name matches ^[A-Za-z0-9_-]{1,64}$ and fails otherwise, and the server name
\* of every registration (a CLI add launch or a config-file write), trimmed,
\* matches that pattern.
C16_ValidName ==
    \A p \in Procs :
        /\ LET r == validateServerName(Str(serverName[p]))
           IN  IF NamePattern(Trim(serverName[p]))
               THEN r.ok /\ r.v = Trim(serverName[p])
               ELSE ~r.ok
        /\ Registered(p) => NamePattern(Trim(serverName[p]))

\* the launches of `gemini mcp add` by run p
GeminiAdds(p) ==
    {l \in Range(procs[p]) : l.role = "add" /\ l.api = "spawnSync"}
\* [--scope, scope] unless the scope (user when none is given) is user
ScopeFlag(sc) ==
    IF sc \in {<<>>, L("user")} THEN <<>> ELSE <<L("--scope"), sc>>

\* C17: the argument vector of every `gemini` add launch is, for a local
\* spec, [mcp, add], then [--scope, scope] iff the scope is not user, then
\* the name, the command and the args in order; for a remote spec
\* [mcp, add, --transport, transport], then [--scope, scope] iff the scope is
\* not user, then the name and the URL.
C17_GeminiArgv ==
    \A p \in Procs : \A l \in GeminiAdds(p) :
        /\ l.cmd = L("gemini")
        /\ l.argv =
              IF config[p].isUrlBased
              THEN <<L("mcp"), L("add"), L("--transport"), config[p].transport.s>>
                   \o ScopeFlag(scope[p])
                   \o <<Trim(serverName[p]), config[p].url.s>>
              ELSE <<L("mcp"), L("add")>>
                   \o ScopeFlag(scope[p])
                   \o <<Trim(serverName[p]), config[p].command.s>>
                   \o [i \in DOMAIN config[p].args.a |-> config[p].args.a[i].s]
\* gemini has been launched for a local spec with an argument, without a
\* scope flag
C17_GeminiAdded ==
    \E p \in Procs : \E l \in GeminiAdds(p) :
        /\ ~config[p].isUrlBased /\ config[p].args.a # <<>>
        /\ scope[p] = L("user") /\ l.status = 0

\* the transport a URL-based run is to use when it is not asked for one: the
\* transport its JSON input names (bare or under its wrapper key), else the
\* default of the target
ExpectedTransport(p) ==
    LET j == parseJSONText(jsonIn[p]).v
        doc == IF Truthy(GetProp(j, L("url"))) THEN j ELSE j.kv[1].v
        given == GetProp(doc, L("transport"))
    IN  IF Truthy(given) THEN given
        ELSE IF Target(p) = "Claude" THEN Str(L("sse")) ELSE Str(L("http"))
\* what a command text names after its --transport option
TransportsIn(text) ==
    {text[i + 1] : i \in {k \in 1..(Len(text) - 1) :
                            text[k] \in {"claude mcp add --transport ",
                                         "gemini mcp add --transport ",
                                         " mcp add --transport "}}}
\* run p took a URL-based spec from a JSON input and was not asked for a
\* transport
UrlFromJson(p) ==
    /\ jsonIn[p] # Undef /\ jsonMode[p] /\ config[p].isUrlBased
    /\ "transport" \notin Range(prompts[p])

\* C18: for a URL-based JSON input the transport of the spec is the one the
\* input names, and without one the default of the target: sse for Claude,
\* http for Gemini and for OpenCode; the generated and dry-run command texts
\* and the CLI launches name that transport.
C18_DefaultTransport ==
    \A p \in Procs :
        UrlFromJson(p) =>
            /\ config[p].transport = ExpectedTransport(p)
            /\ \A l \in Range(procs[p]) :
                  l.role = "add" =>
                      IF l.api = "spawnSync"
                      THEN l.argv[4] = ExpectedTransport(p).s
                      ELSE TransportsIn(l.cmd) = {ExpectedTransport(p).s[1]}
            /\ \A e \in Range(shown[p]) :
                  TransportsIn(e.text) \subseteq {ExpectedTransport(p).s[1]}

\* the launches of `claude mcp add-json` by run p
ClaudeLocalAdds(p) ==
    IF Target(p) = "Claude" /\ ~config[p].isUrlBased
    THEN {l \in Range(procs[p]) : l.role = "add"}
    ELSE {}
\* the names of the fields that are not part of the payload
InternalFields ==
    {"cwd", "enabled", "extractedServerName", "name", "isUrlBased", "scope",
     "serverName", "confirmed"}

\* C19: a Claude registration of a local spec launches
\* `claude mcp add-json <name> '<json>' -s <scope>`, where <json> is the JSON
\* text of the spec's command, args, env and description alone, no internal
\* field is named in it, and <scope> is the scope of the request.
C19_ClaudePayload ==
    \A p \in Procs : \A l \in ClaudeLocalAdds(p) :
        LET payload == Stringify(Obj(<<KV(L("command"), config[p].command),
                                       KV(L("args"), config[p].args),
                                       KV(L("env"), config[p].env),
                                       KV(L("description"), config[p].description)>>))
        IN  /\ l.cmd = L("claude mcp add-json ") \o serverName[p] \o L(" '")
                       \o payload \o L("' -s ") \o scope[p]
            /\ \A i \in DOMAIN payload : payload[i] \notin InternalFields
\* claude has been launched for a spec that has a cwd, an enabled flag and
\* an env
C19_ClaudeAdded ==
    \E p \in Procs : \E l \in ClaudeLocalAdds(p) :
        /\ config[p].cwd # Undef /\ config[p].enabled = Bool(FALSE)
        /\ config[p].env # EmptyObj /\ l.status = 0

\* outputs that contain `error` or `failed` in some letter case
ErrorOuts == {"error", "Error", "ERROR", "failed", "Failed", "FAILED"}
\* the Claude adapter call of run p has ended, and was not a dry run
ClaudeEnded(p) ==
    Target(p) = "Claude" /\ result[p] # "none" /\ ~flags[p].isDryRun

\* C20: the Claude adapter reports success exactly when the executable was
\* found and the add command exited with status zero and an output that
\* contains neither `error` nor `failed` in any letter case; otherwise it
\* reports failure.
C20_ClaudeFailure ==
    \A p \in Procs :
        ClaudeEnded(p) =>
            (result[p] = "true" <=>
                \E l \in Range(procs[p]) :
                    l.role = "add" /\ l.status = 0 /\ l.out \notin ErrorOuts)

\* the exit code the step that ends run p is to give: 0 when the adapter
\* reported success (a dry run included), when the user declined the
\* confirmation or the overwrite confirmation, chose exit in the fallback
\* menu, or the generate-command artifact was rendered; 1 otherwise
ExitCodeDue(p) ==
    IF \/ result'[p] = "true"
       \/ pc[p] \in {"ask", "urlAsk", "oc_prompt"}
       \/ pc[p] = "fallback" /\ reads'[p] = reads[p]
       \/ pc[p] = "config" /\ flags[p].generateCommand /\ shown'[p] # shown[p]
    THEN 0 ELSE 1

\* C21: the step that ends a run gives exit code 0 on success and on an
\* explicit early exit (generate-command, dry-run, a declined confirmation,
\* the declined OpenCode overwrite confirmation, exit in the fallback menu),
\* and exit code 1 on every other terminal path.
C21_ExitCodes ==
    [][\A p \in Procs :
          (pc[p] # "done" /\ pc'[p] = "done") => exitCode'[p] = ExitCodeDue(p)]_vars

\* C22: a run with --generate-command, with or without --force, only renders
\* the artifact: no adapter is called, no child process is launched and the
\* config file is neither written nor backed up.
C22_GenerateOnly ==
    \A p \in Procs :
        flags[p].generateCommand =>
            /\ pc[p] \notin AdapterPcs /\ result[p] = "none"
            /\ procs[p] = <<>>
            /\ FsChangesOf(fsLog, p) = <<>>
\* a run with --generate-command and --force has rendered its artifact
C22_Generated ==
    \E p \in Procs :
        /\ flags[p].generateCommand /\ flags[p].isForce
        /\ pc[p] = "done" /\ shown[p] # <<>> /\ exitCode[p] = 0

RegistrationsIn(launches, fslog, p) ==
    Cardinality({i \in DOMAIN launches : launches[i].role = "add"})
    + Cardinality({i \in DOMAIN fslog : fslog[i].op = "write" /\ fslog[i].by = p})

\* C24: no step leaves a run with more than one registration action (an add
\* launch of claude or gemini, or a write of the OpenCode config file), and
\* once the adapter has reported failure no step of the run launches a
\* process or adds a registration action.
C24_NoRetry ==
    [][\A p \in Procs :
          /\ RegistrationsIn(procs'[p], fsLog', p) <= 1
          /\ result[p] \in {"false", "threw"} =>
                /\ procs'[p] = procs[p]
                /\ RegistrationsIn(procs'[p], fsLog', p)
                      = RegistrationsIn(procs[p], fsLog, p)]_vars
\* the add launch of a run failed and the run has ended with exit code 1
C24_AddFailed ==
    \E p \in Procs :
        /\ pc[p] = "done" /\ result[p] = "false" /\ exitCode[p] = 1
        /\ \E l \in Range(procs[p]) : l.role = "add" /\ l.status = 1


\* the JSON.parse calls of run p that threw
Thrown(p) == {i \in DOMAIN parses[p] : parses[p][i].threw}
\* parsing the input of run p failed: its last JSON.parse call threw
ParseFailed(p) == parses[p] # <<>> /\ parses[p][Len(parses[p])].threw

\* C25: parsing an input makes at most two JSON.parse calls: one on the text
\* and, only when that one threw and the text starts with a quoted or bare
\* key, a colon and an opening brace, one on the text between braces. When
\* parsing fails the logged error holds the message of every call made, no
\* prompt for a scope or a name is issued, no adapter is called, nothing is
\* launched or written, and the run exits with code 1.
C25_ParseAttempts ==
    \A p \in Procs :
        /\ Len(parses[p]) <= 2
        /\ parses[p] # <<>> => parses[p][1].on = "direct"
        /\ Len(parses[p]) = 2 =>
              /\ parses[p][1].threw /\ parses[p][2].on = "wrapped"
              /\ jsonIn[p].t = "text" /\ jsonIn[p].fragment
        /\ ParseFailed(p) =>
              /\ pc[p] = "done" /\ exitCode[p] = 1 /\ result[p] = "none"
              /\ \E e \in Range(shown[p]) :
                    \A i \in Thrown(p) : Contains(e.text, SyntaxError(parses[p][i].on))
              /\ Range(prompts[p]) \cap {"scope", "serverName"} = {}
              /\ procs[p] = <<>> /\ FsChangesOf(fsLog, p) = <<>>
\* a fragment whose text between braces does not parse either has ended a run
C25_BothFailed ==
    \E p \in Procs :
        /\ Len(parses[p]) = 2 /\ ParseFailed(p)
        /\ pc[p] = "done" /\ exitCode[p] = 1


\* the line of the key of server name in the container of file
EntryLineOf(file, name) ==
    file.entryLine[CHOOSE i \in DOMAIN file.servers : file.servers[i] = name]
\* run p has opened the editor on the server it was asked to edit
EditorOpened(p) == pc[p] = "done" /\ serverName[p] # <<>> /\ procs[p] # <<>>

\* C26: in edit mode the editor is opened at the line on which the key of
\* the chosen server stands inside the server container, also when the name
\* stands earlier in the file as another key or inside a string value.
C26_EntryLine ==
    \A p \in Procs :
        EditorOpened(p) =>
            LET line == EntryLineOf(fsFile[EditPath], serverName[p][1])
            IN  /\ ShownText(<<"Line: ", ToString(line)>>) \in Range(shown[p])
                /\ \E editor \in Editors :
                      procs[p][1].cmd = openEditorAtLine(editor, EditPath, line)


\* launch l names scope sc: --scope sc in its argument vector, or -s sc or
\* --scope sc in its command line
ScopeNamedIn(l, sc) ==
    IF l.api = "spawnSync"
    THEN \E i \in 1..(Len(l.argv) - 1) : l.argv[i] = L("--scope") /\ l.argv[i + 1] = sc
    ELSE \E i \in 1..(Len(l.cmd) - 1) :
            /\ l.cmd[i] \in {"' -s ", " -s ", " --scope "}
            /\ <<l.cmd[i + 1]>> = sc

\* C27: the scope of the request, when it is one the target offers,
\* determines the registration: every add launch names it as its scope
\* unless it is user, and every config-file write goes to the file of that
\* scope.
C27_ScopeKept ==
    \A p \in Procs :
        scope[p] \in ScopeChoices(p) =>
            /\ \A l \in Range(procs[p]) :
                  (l.role = "add" /\ scope[p] # L("user")) => ScopeNamedIn(l, scope[p])
            /\ \A i \in DOMAIN fsLog :
                  (fsLog[i].op = "write" /\ fsLog[i].by = p) =>
                      fsLog[i].path = (IF scope[p] = L("project") THEN "project" ELSE "user")


\* the chunks of a command text, those of its fixed parts split at the spaces
WordChunks(c) ==
    CASE c = "gemini mcp add" -> <<"gemini", " ", "mcp", " ", "add">>
      [] c = "gemini mcp add --transport " ->
            <<"gemini", " ", "mcp", " ", "add", " ", "--transport", " ">>
      [] c = " --scope " -> <<" ", "--scope", " ">>
      [] OTHER -> <<c>>
\* the words a POSIX shell makes of chunks from position i on: inq inside
\* single quotes, cur the word in progress, has whether there is one
RECURSIVE ShellSplit(_, _, _, _, _)
ShellSplit(chunks, i, inq, cur, has) ==
    IF i > Len(chunks) THEN (IF has THEN <<cur>> ELSE <<>>)
    ELSE LET c == chunks[i]
         IN  IF inq
             THEN IF c = "'" THEN ShellSplit(chunks, i + 1, FALSE, cur, TRUE)
                  ELSE ShellSplit(chunks, i + 1, TRUE, cur \o <<c>>, TRUE)
             ELSE CASE c = "'" -> ShellSplit(chunks, i + 1, TRUE, cur, TRUE)
                    [] c = "''" -> ShellSplit(chunks, i + 1, FALSE, cur, TRUE)
                    [] c = "'\"'\"'" -> ShellSplit(chunks, i + 1, FALSE, cur \o <<"'">>, TRUE)
                    [] c = " " -> (IF has THEN <<cur>> ELSE <<>>)
                                  \o ShellSplit(chunks, i + 1, FALSE, <<>>, FALSE)
                    [] OTHER -> ShellSplit(chunks, i + 1, FALSE, cur \o <<c>>, TRUE)
\* the argument vector a command text denotes
RECURSIVE Flatten(_)
Flatten(ss) == IF ss = <<>> THEN <<>> ELSE Head(ss) \o Flatten(Tail(ss))
ShellWords(text) ==
    ShellSplit(Flatten([i \in DOMAIN text |-> WordChunks(text[i])]), 1, FALSE, <<>>, FALSE)

\* the command line a Claude request is to run, the argument vector a Gemini
\* request is to run
ClaudeLineOf(p) ==
    IF config[p].isUrlBased
    THEN L("claude mcp add --transport ") \o Or(config[p].transport, Str(L("sse"))).s
         \o L(" ") \o serverName[p] \o L(" ") \o Interp(config[p].url)
    ELSE generateClaudeCommand(config[p], serverName[p], scope[p])
GeminiArgvOf(p) ==
    IF config[p].isUrlBased
    THEN buildGeminiURLArgs(config[p], serverName[p], scope[p]).v
    ELSE buildGeminiMCPAddArgs(config[p], serverName[p], scope[p]).v
\* the adapter of run p has returned true from its dry-run branch
DryRunShown(p) ==
    /\ isDryRun(p) /\ ~flags[p].generateCommand /\ result[p] = "true"

\* C28: what a dry run shows is what a real run hands to the target: for
\* Claude the command line shown is the command line launched; for Gemini
\* the command line shown splits into gemini and the argument vector
\* launched; for OpenCode the JSON shown is the entry stored under the
\* server name in mcp.
C28_DryRunFidelity ==
    \A p \in Procs :
        /\ Target(p) = "Claude" =>
              /\ DryRunShown(p) => \E e \in Range(shown[p]) : e.text = ClaudeLineOf(p)
              /\ \A l \in Range(procs[p]) : l.role = "add" => l.cmd = ClaudeLineOf(p)
        /\ Target(p) = "Gemini" =>
              /\ DryRunShown(p) =>
                    \E e \in Range(shown[p]) :
                        ShellWords(e.text) = <<L("gemini")>> \o GeminiArgvOf(p)
              /\ \A l \in Range(procs[p]) :
                    l.role = "add" => l.cmd = L("gemini") /\ l.argv = GeminiArgvOf(p)
        /\ Target(p) = "OpenCode" =>
              /\ DryRunShown(p) =>
                    \E e \in Range(shown[p]) :
                        e.js # Undef /\ Persist(e.js) = RenderedEntry(p)
              /\ (Wrote(p) /\ result[p] = "true") =>
                    /\ WroteEntry(p)
                    /\ OwnGet(WrittenMcp(p).kv, OCName(p)) = RenderedEntry(p)


\* the sources the command line of run p names, highest precedence first
SourcesGiven(p) ==
    SelectSeq(<<"clipboard", "json", "file", "auto">>,
              LAMBDA src : CASE src = "clipboard" -> flags[p].useClipboard
                             [] src = "json" -> flags[p].jsonInput
                             [] src = "file" -> flags[p].jsonFileInput
                             [] OTHER -> flags[p].autoDetectMode)
\* run p is to ask the input-mode menu
MenuDue(p) == SourcesGiven(p) = <<>> /\ ~flags[p].isForce /\ ~flags[p].isDryRun

\* C29: a run reads one input source, the first its command line names in
\* the order --clipboard, --json, --json-file, `.`; with none named it reads
\* the one chosen in the input-mode menu when neither --force nor --dry-run
\* is set, and auto-detects otherwise. No other source is read, except that
\* after a failed auto-detection chosen in the menu the fallback menu is
\* asked and the source chosen there is read.
C29_OneSource ==
    \A p \in Procs :
        /\ pc[p] \notin {"off", "start", "menu"} => reads[p] # <<>>
        /\ IF MenuDue(p)
           THEN \/ reads[p] = <<>>
                \/ /\ Len(reads[p]) = 1
                   /\ reads[p][1] \in {"paste", "file", "clipboard", "auto"}
                   /\ "inputMode" \in Range(prompts[p])
                \/ /\ Len(reads[p]) = 2 /\ reads[p][1] = "auto"
                   /\ reads[p][2] \in {"paste", "file", "clipboard"}
                   /\ "fallbackMode" \in Range(prompts[p])
           ELSE /\ reads[p] \in {<<>>, <<IF SourcesGiven(p) # <<>>
                                         THEN SourcesGiven(p)[1] ELSE "auto">>}
                /\ Range(prompts[p]) \cap {"inputMode", "fallbackMode"} = {}
\* a run given all four sources has read the clipboard alone and registered
C29_ClipboardRead ==
    \E p \in Procs :
        /\ Len(SourcesGiven(p)) = 4 /\ reads[p] = <<"clipboard">>
        /\ pc[p] = "done" /\ result[p] = "true"


\* the target the flags name: OpenCode before Gemini before Claude
ActiveTarget(p) ==
    IF flags[p].useOpenCode THEN "OpenCode"
    ELSE IF flags[p].useGemini THEN "Gemini" ELSE "Claude"
\* the target a command text is for, by the program it starts with
TargetOfText(text) ==
    IF text = <<>> THEN "none"
    ELSE IF text[1] \in {"claude", "claude mcp add-json ", "claude mcp add --transport "}
    THEN "Claude"
    ELSE IF text[1] \in {"gemini", "gemini mcp add", "gemini mcp add --transport "}
    THEN "Gemini" ELSE "none"
\* the targets of the artifacts shown to run p and of its registrations
ArtifactTargets(p) ==
    {IF e.js # Undef THEN "OpenCode" ELSE TargetOfText(e.text) : e \in Range(shown[p])}
    \ {"none"}
AddTargets(p) ==
    {TargetOfText(l.cmd) : l \in {m \in Range(procs[p]) : m.role = "add"}}
    \cup (IF Wrote(p) THEN {"OpenCode"} ELSE {})
\* the adapter a position of the run is in
AdapterAt(position) ==
    CASE position \in {"claude", "claudeURL"} -> "Claude"
      [] position \in {"gemini", "geminiURL"} -> "Gemini"
      [] position \in AdapterPcs -> "OpenCode"
      [] OTHER -> "none"

\* C30: one target is active for the whole run, OpenCode when --opencode is
\* given, else Gemini when --gemini is given, else Claude, and the adapter
\* called, the registrations made, the artifacts shown, the scopes offered
\* and the default transport of a URL-based input that names none are all
\* those of that target.
C30_OneTarget ==
    \A p \in Procs :
        /\ AdapterAt(pc[p]) \in {"none", ActiveTarget(p)}
        /\ AddTargets(p) \subseteq {ActiveTarget(p)}
        /\ ArtifactTargets(p) \subseteq {ActiveTarget(p)}
        /\ "scope" \in Range(prompts[p]) /\ scope[p] # <<>> =>
              scope[p] \in (IF ActiveTarget(p) = "Claude"
                            THEN {L("user"), L("local"), L("project")}
                            ELSE {L("user"), L("project")})
        /\ (UrlFromJson(p) /\ pc[p] = "config") =>
              LET j == parseJSONText(jsonIn[p]).v
                  doc == IF Truthy(GetProp(j, L("url"))) THEN j ELSE j.kv[1].v
              IN  ~Truthy(GetProp(doc, L("transport"))) =>
                      config[p].transport =
                          (IF ActiveTarget(p) = "Claude" THEN Str(L("sse")) ELSE Str(L("http")))

====
